---- MODULE Spec2Model ----
(***************************************************************************)
(* The frequency-assignment registry of the shortwave node                 *)
(* (src/src/state.rs), with the codecs it relies on (src/src/crypto.rs,    *)
(* src/src/types.rs).  Every AppState operation is split at the points     *)
(* where the code gives up one lock and waits for the next; what happens   *)
(* under one lock guard is one action.  Around it: the now-playing cell    *)
(* and its broadcast channel (src/src/http.rs, src/src/ipc.rs), the        *)
(* advertisement task, the expiry task (src/src/main.rs) and the gossip    *)
(* worker with its outbound queue (src/src/p2p.rs).                        *)
(***************************************************************************)
EXTENDS Integers, Sequences, FiniteSets, TLC

VARIABLES
    registry,                   \* AppState.registry: the HashMap as a set of (key, val) entries
    seen_messages,              \* AppState.seen_messages
    max_frequencies_per_owner,  \* AppState.max_frequencies_per_owner
    events,                     \* everything sent on AppState.events_tx, in order
    now,                        \* the clock read by Utc::now()
    pc,                         \* per task: where it stands in the operation it runs
    loc,                        \* per task: the operation's arguments and locals
    ret,                        \* per task: what its last completed operation returned
    calls_left,                 \* how many more calls the environment makes
    accepted,                   \* history: message ids of the advertisements whose call returned Ok after inserting
    now_playing,                \* AppState.now_playing: the cell
    now_tx,                     \* AppState.now_tx: the broadcast channel's shared buffer and tail
    now_rx,                     \* per subscriber: the receiver its stream holds
    now_sent,                   \* everything sent on AppState.now_tx, in order
    delivered,                  \* per subscriber: the items its stream has yielded to the client, in order
    outbound,                   \* the mpsc queue from P2PHandle.tx to the gossip worker
    cancelled,                  \* whether the node has been asked to stop
    advertise_ttl_secs,         \* Config.advertise_ttl_secs as the node was started with
    interval,                   \* the advertisement task's interval: the deadline of its next tick
    seen_lock,                  \* the RwLock around AppState.seen_messages: holders and waiters
    registry_lock               \* the RwLock around AppState.registry: holders and waiters

\* The state the registry operations never touch
svc == <<now_playing, now_tx, now_sent, now_rx, delivered, outbound, cancelled,
         advertise_ttl_secs, interval, seen_lock, registry_lock>>

vars == <<registry, seen_messages, max_frequencies_per_owner, events, now, pc, loc, ret, calls_left, accepted,
          now_playing, now_tx, now_sent, now_rx, delivered, outbound, cancelled,
          advertise_ttl_secs, interval, seen_lock, registry_lock>>

----------------------------------------------------------------------------
(* Bounds of the model *)

MaxOps == 2
MaxTime == 1
MaxTtl == 1
MaxCap == 2
MinCap == 1
MinTtl == 10            \* the smallest advertise TTL the configuration allows, in seconds
OutboundCapacity == 1   \* the gossip outbound queue's capacity, scaled down from the 128 of p2p.rs line 144
NowCapacity == 2   \* the now-playing channel's capacity, scaled down from the 128 of state.rs line 50

\* The absent value: Option::None, an idle task's locals, no result yet
None == [op |-> "none"]

Tasks == {"t1", "t2"}
MessageIds == {"m1", "m2"}
StationIds == {"s1", "s2"}
OwnerKeys == {"K1", "K2"}
Names == {"n1"}
StreamUrls == {"u1", "u2"}
AdTimes == 0 .. (MaxTime - 1)
Ttls == 1 .. MaxTtl

----------------------------------------------------------------------------
(* types.rs: BigDecimal frequencies and the registry key *)

Char(d) == CASE d = 0 -> "0" [] d = 1 -> "1" [] d = 2 -> "2" [] d = 3 -> "3"
             [] d = 4 -> "4" [] d = 5 -> "5" [] d = 6 -> "6" [] d = 7 -> "7"
             [] d = 8 -> "8" [] d = 9 -> "9"

RECURSIVE Digits(_)
Digits(n) == IF n < 10 THEN <<Char(n)>> ELSE Append(Digits(n \div 10), Char(n % 10))

RECURSIVE PadLeft(_, _)
PadLeft(s, len) == IF Len(s) >= len THEN s ELSE PadLeft(<<"0">> \o s, len)

Abs(i) == IF i < 0 THEN -i ELSE i

\* BigDecimal's Display for a value int_val * 10^(-scale), scale >= 0
BigDecimalToString(f) ==
    LET sign == IF f.int_val < 0 THEN <<"-">> ELSE <<>>
        d == PadLeft(Digits(Abs(f.int_val)), f.scale + 1)
        cut == Len(d) - f.scale
    IN  IF f.scale = 0 THEN sign \o d
        ELSE sign \o SubSeq(d, 1, cut) \o <<".">> \o SubSeq(d, cut + 1, Len(d))

Contains(s, c) == \E i \in 1 .. Len(s) : s[i] = c

EndsWith(s, c) == Len(s) > 0 /\ s[Len(s)] = c

Pop(s) == SubSeq(s, 1, Len(s) - 1)

RECURSIVE TrimZeros(_)
TrimZeros(s) == IF EndsWith(s, "0") THEN TrimZeros(Pop(s)) ELSE s

\* The key without the trimming of lines 67-71
normalize_frequency_key_Untrimmed(f) ==
    LET s0 == BigDecimalToString(f)
    IN  IF s0 = <<"-", "0">> THEN <<"0">> ELSE s0

normalize_frequency_key(f) ==
    LET s0 == BigDecimalToString(f)
        s1 == IF Contains(s0, ".")
              THEN LET z == TrimZeros(s0) IN IF EndsWith(z, ".") THEN Pop(z) ELSE z
              ELSE s0
    IN  IF s1 = <<"-", "0">> THEN <<"0">> ELSE s1

Frequencies == {[int_val |-> 10050, scale |-> 2], [int_val |-> 91, scale |-> 0]}
CapFrequencies == {[int_val |-> 900, scale |-> 1], [int_val |-> 91, scale |-> 0],
                   [int_val |-> 92, scale |-> 0]}

----------------------------------------------------------------------------
(* crypto.rs: canonical bytes and Ed25519 *)

\* A signature is the pair (signing key, signed bytes): it verifies under
\* that key over those bytes and under nothing else.
sign_bytes(sk, data) == [signer |-> sk, data |-> data]

\* A signature string that does not decode to 64 bytes
Garbage == [garbage |-> TRUE]

\* Ok(key) for the base64 of a 32-byte Ed25519 point, Err otherwise
parse_public_key_b64(b64) == IF b64 \in OwnerKeys THEN [ok |-> TRUE, v |-> b64] ELSE [ok |-> FALSE]

parse_sig_b64(b64) == IF b64 = Garbage THEN [ok |-> FALSE] ELSE [ok |-> TRUE, v |-> b64]

verify_bytes(vk, data, sig) == sig.signer = vk /\ sig.data = data

uuid_to_string(u) == <<"uuid", u>>

to_rfc3339(t) == <<"rfc3339", t>>

canonicalize_ad_bytes(namespace, frequency_key, station_id, stream_url, advertised_at_rfc3339, ttl_seconds) ==
    <<"shortwave:", namespace, ":freq=", frequency_key, ";station=", station_id,
      ";url=", stream_url, ";at=", advertised_at_rfc3339, ";ttl=", ttl_seconds>>

canonicalize_release_bytes(namespace, frequency_key, station_id) ==
    <<"shortwave:", namespace, ":freq=", frequency_key, ";station=", station_id>>

----------------------------------------------------------------------------
(* The inputs the operations are called with *)

\* The signed fields of an advertisement, as accept_advertisement recomputes them
AdCanonical(ad) ==
    canonicalize_ad_bytes("advertise", normalize_frequency_key(ad.frequency),
                          uuid_to_string(ad.station_id), ad.stream_url,
                          to_rfc3339(ad.advertised_at), ad.ttl_seconds)

AdFields(freqs) ==
    [message_id : MessageIds, station_id : StationIds, frequency : freqs,
     name : Names, stream_url : {"u1"}, advertised_at : AdTimes,
     ttl_seconds : Ttls, owner_public_key : OwnerKeys]

\* The advertisement with one signed field changed after signing
Tampered(ad) ==
    { [ad EXCEPT !.frequency = f] : f \in Frequencies \ {ad.frequency} }
    \cup { [ad EXCEPT !.station_id = s] : s \in StationIds \ {ad.station_id} }
    \cup { [ad EXCEPT !.stream_url = u] : u \in StreamUrls \ {ad.stream_url} }
    \cup { [ad EXCEPT !.advertised_at = ad.advertised_at + 1],
           [ad EXCEPT !.ttl_seconds = ad.ttl_seconds + 1] }

\* The signatures an advertisement may arrive with: the owner's over its own
\* fields, another key's, the owner's over different fields, or no signature
AdSignatures(ad) ==
    { sign_bytes(k, AdCanonical(ad)) : k \in OwnerKeys }
    \cup { sign_bytes(ad.owner_public_key, AdCanonical(x)) : x \in Tampered(ad) }
    \cup { Garbage }

WithSignature(ad, sig) ==
    [message_id |-> ad.message_id, station_id |-> ad.station_id,
     frequency |-> ad.frequency, name |-> ad.name, stream_url |-> ad.stream_url,
     advertised_at |-> ad.advertised_at, ttl_seconds |-> ad.ttl_seconds,
     owner_public_key |-> ad.owner_public_key, signature |-> sig]

Advertisements == UNION { { WithSignature(ad, sig) : sig \in AdSignatures(ad) } : ad \in AdFields(Frequencies) }

\* What the local publisher builds (main.rs): signed by the owner over its own fields
SignedAd(ad) == WithSignature(ad, sign_bytes(ad.owner_public_key, AdCanonical(ad)))

\* One station per frequency: 90.0 -> s1, 91 -> s2, 92 -> s3
CapStation(f) == IF f.int_val = 900 THEN "s1" ELSE IF f.int_val = 91 THEN "s2" ELSE "s3"

CapAdvertisements ==
    { SignedAd([message_id |-> m, station_id |-> CapStation(f), frequency |-> f,
                name |-> "n1", stream_url |-> "u1", advertised_at |-> 0,
                ttl_seconds |-> ttl, owner_public_key |-> k]) :
        m \in MessageIds, f \in CapFrequencies, ttl \in Ttls, k \in OwnerKeys }

Keys == { normalize_frequency_key(f) : f \in Frequencies }

CapKeys == { normalize_frequency_key(f) : f \in CapFrequencies }

ReleaseSignatures(key, station_id) ==
    { sign_bytes(k, canonicalize_release_bytes("release", key, uuid_to_string(station_id))) : k \in OwnerKeys }
    \cup { Garbage }

ImportAssignments ==
    { [station_id |-> s, frequency |-> f, name |-> n, stream_url |-> "u1",
       created_at |-> 0, last_seen |-> at, expires_at |-> at + ttl,
       owner_public_key |-> k] :
        s \in StationIds, f \in Frequencies, n \in Names, at \in AdTimes,
        ttl \in Ttls, k \in OwnerKeys }

----------------------------------------------------------------------------
(* state.rs: the registry map *)

reg_contains_key(reg, key) == \E e \in reg : e.key = key

reg_get(reg, key) ==
    IF reg_contains_key(reg, key) THEN (CHOOSE e \in reg : e.key = key).val ELSE None

reg_insert(reg, key, val) == { e \in reg : e.key # key } \cup { [key |-> key, val |-> val] }

reg_remove(reg, key) == { e \in reg : e.key # key }

reg_values(reg) == { e.val : e \in reg }

\* reg.values().filter(|a| &a.owner_public_key == owner).count()
OwnerCount(reg, owner) == Cardinality({ e \in reg : e.val.owner_public_key = owner })

----------------------------------------------------------------------------
(* state.rs: accept_advertisement *)

Return(t, r) ==
    /\ pc' = [pc EXCEPT ![t] = "idle"]
    /\ loc' = [loc EXCEPT ![t] = None]
    /\ ret' = [ret EXCEPT ![t] = r]

Goto(t, label, locals) ==
    /\ pc' = [pc EXCEPT ![t] = label]
    /\ loc' = [loc EXCEPT ![t] = locals]
    /\ ret' = [ret EXCEPT ![t] = None]

\* A call is taken by the first idle task of the pool
Start(t) ==
    /\ pc[t] = "idle"
    /\ t = "t2" => pc["t1"] # "idle"
    /\ calls_left > 0
    /\ calls_left' = calls_left - 1

\* An advertisement without its signature
Fields(ad) == [ad EXCEPT !.signature = None]

\* The advertisement carries its owner's signature over its own signed fields
Signed(ad) == ad.signature = sign_bytes(ad.owner_public_key, AdCanonical(ad))

\* What a call returned, with the arguments it was made with: the
\* advertisement's fields and whether it was signed
AcceptResult(ad, kind, val, inserted) ==
    [op |-> "accept", kind |-> kind, val |-> val, inserted |-> inserted,
     ad |-> Fields(ad), signed |-> Signed(ad)]

\* Lines 70-78: the short circuit on a message id seen before.  TRUE when
\* the call returns Ok(existing) without going further.
SeenShortCircuit(seen, reg, ad, key) ==
    ad.message_id \in seen /\ reg_contains_key(reg, key)

\* Lines 80-90: the signature check of the advertisement
VerifyAdvertisement(ad, key) ==
    LET vk == parse_public_key_b64(ad.owner_public_key)
        msg == canonicalize_ad_bytes("advertise", key, uuid_to_string(ad.station_id),
                                     ad.stream_url, to_rfc3339(ad.advertised_at),
                                     ad.ttl_seconds)
        sig == parse_sig_b64(ad.signature)
    IN  vk.ok /\ sig.ok /\ verify_bytes(vk.v, msg, sig.v)

\* The conflict rules without the station comparison of lines 93-95
ConflictCheck_NoStationCheck(reg, ad, key, max) ==
    LET existing == reg_get(reg, key) IN
    IF existing # None /\ existing.owner_public_key # ad.owner_public_key
        THEN [kind |-> "OwnerMismatch", val |-> None]
    ELSE IF ~reg_contains_key(reg, key) /\ OwnerCount(reg, ad.owner_public_key) >= max
        THEN [kind |-> "OwnerCapExceeded", val |-> None]
    ELSE [kind |-> "Ok", val |-> None]

\* The conflict rules with the cap compared by > instead of >= at line 103
ConflictCheck_CapOffByOne(reg, ad, key, max) ==
    LET existing == reg_get(reg, key) IN
    IF existing # None /\ existing.station_id # ad.station_id
        THEN [kind |-> "FrequencyConflict", val |-> <<key, existing.station_id>>]
    ELSE IF existing # None /\ existing.owner_public_key # ad.owner_public_key
        THEN [kind |-> "OwnerMismatch", val |-> None]
    ELSE IF ~reg_contains_key(reg, key) /\ OwnerCount(reg, ad.owner_public_key) > max
        THEN [kind |-> "OwnerCapExceeded", val |-> None]
    ELSE [kind |-> "Ok", val |-> None]

\* The conflict rules counting the owner's entries only when the key is
\* already held, the test of line 100 inverted
ConflictCheck_CapOnHeldKey(reg, ad, key, max) ==
    LET existing == reg_get(reg, key) IN
    IF existing # None /\ existing.station_id # ad.station_id
        THEN [kind |-> "FrequencyConflict", val |-> <<key, existing.station_id>>]
    ELSE IF existing # None /\ existing.owner_public_key # ad.owner_public_key
        THEN [kind |-> "OwnerMismatch", val |-> None]
    ELSE IF reg_contains_key(reg, key) /\ OwnerCount(reg, ad.owner_public_key) >= max
        THEN [kind |-> "OwnerCapExceeded", val |-> None]
    ELSE [kind |-> "Ok", val |-> None]

\* Lines 92-106: the conflict rules, under the registry write lock
ConflictCheck(reg, ad, key, max) ==
    LET existing == reg_get(reg, key) IN
    IF existing # None /\ existing.station_id # ad.station_id
        THEN [kind |-> "FrequencyConflict", val |-> <<key, existing.station_id>>]
    ELSE IF existing # None /\ existing.owner_public_key # ad.owner_public_key
        THEN [kind |-> "OwnerMismatch", val |-> None]
    ELSE IF ~reg_contains_key(reg, key) /\ OwnerCount(reg, ad.owner_public_key) >= max
        THEN [kind |-> "OwnerCapExceeded", val |-> None]
    ELSE [kind |-> "Ok", val |-> None]

\* The assignment with its expiry counted from the time of receipt instead
\* of ad.advertised_at (line 109)
NewAssignment_ExpiresFromNow(ad, created_at) ==
    [station_id |-> ad.station_id, frequency |-> ad.frequency, name |-> ad.name,
     stream_url |-> ad.stream_url, created_at |-> created_at,
     last_seen |-> ad.advertised_at,
     expires_at |-> created_at + ad.ttl_seconds,
     owner_public_key |-> ad.owner_public_key]

\* Lines 108-119
NewAssignment(ad, created_at) ==
    [station_id |-> ad.station_id, frequency |-> ad.frequency, name |-> ad.name,
     stream_url |-> ad.stream_url, created_at |-> created_at,
     last_seen |-> ad.advertised_at,
     expires_at |-> ad.advertised_at + ad.ttl_seconds,
     owner_public_key |-> ad.owner_public_key]

\* Lines 68-90: the seen_messages guard, then the signature check
AcceptBegin(t, ad) ==
    LET key == normalize_frequency_key(ad.frequency) IN
    /\ Start(t)
    /\ seen_messages' = seen_messages \cup {ad.message_id}
    /\ IF SeenShortCircuit(seen_messages, registry, ad, key)
         THEN Return(t, AcceptResult(ad, "Ok", reg_get(registry, key), FALSE))
       ELSE IF ~VerifyAdvertisement(ad, key)
         THEN Return(t, AcceptResult(ad, "InvalidSignature", None, FALSE))
       ELSE Goto(t, "accept_write",
                 [ad |-> ad, key |-> key, replay |-> ad.message_id \in accepted])
    /\ UNCHANGED <<svc, registry, max_frequencies_per_owner, events, now, accepted>>

\* Lines 91-121: conflict check and insert under one write guard
AcceptWrite(t) ==
    /\ pc[t] = "accept_write"
    /\ LET ad == loc[t].ad
           key == loc[t].key
           c == ConflictCheck(registry, ad, key, max_frequencies_per_owner)
           assignment == NewAssignment(ad, now)
       IN  IF c.kind # "Ok"
             THEN /\ Return(t, AcceptResult(ad, c.kind, c.val, FALSE))
                  /\ UNCHANGED registry
             ELSE /\ registry' = reg_insert(registry, key, assignment)
                  /\ Goto(t, "accept_emit",
                          [ad |-> ad, key |-> key, replay |-> loc[t].replay,
                           assignment |-> assignment])
    /\ UNCHANGED <<svc, seen_messages, max_frequencies_per_owner, events, now, calls_left, accepted>>

\* Lines 122-123: the upsert event, sent after the guard is dropped
AcceptEmit(t) ==
    /\ pc[t] = "accept_emit"
    /\ events' = Append(events, [event |-> "upsert", assignment |-> loc[t].assignment])
    /\ Return(t, AcceptResult(loc[t].ad, "Ok", loc[t].assignment, TRUE))
    /\ accepted' = accepted \cup {loc[t].ad.message_id}
    /\ UNCHANGED <<svc, registry, seen_messages, max_frequencies_per_owner, now, calls_left>>

----------------------------------------------------------------------------
(* state.rs: release_assignment *)

ReleaseResult(key, station_id, signature_b64, released) ==
    [op |-> "release", key |-> key, station_id |-> station_id,
     signature_b64 |-> signature_b64, kind |-> released]

\* The release check without the comparison of the signer with the owner key
VerifyRelease_AnySigner(owner_pk, frequency_key, station_id, signature_b64) ==
    LET vk == parse_public_key_b64(owner_pk)
        msg == canonicalize_release_bytes("release", frequency_key, uuid_to_string(station_id))
        sig == parse_sig_b64(signature_b64)
    IN  vk.ok /\ sig.ok /\ sig.v.data = msg

\* Lines 136-139: the release signature under the owner key read at line 131
VerifyRelease(owner_pk, frequency_key, station_id, signature_b64) ==
    LET vk == parse_public_key_b64(owner_pk)
        msg == canonicalize_release_bytes("release", frequency_key, uuid_to_string(station_id))
        sig == parse_sig_b64(signature_b64)
    IN  vk.ok /\ sig.ok /\ verify_bytes(vk.v, msg, sig.v)

\* The read side without the station comparison of line 131
ReleaseBegin_AnyStation(t, frequency_key, station_id, signature_b64) ==
    LET a == reg_get(registry, frequency_key) IN
    /\ Start(t)
    /\ IF a = None
         THEN Return(t, ReleaseResult(frequency_key, station_id, signature_b64, FALSE))
       ELSE IF ~VerifyRelease(a.owner_public_key, frequency_key, station_id, signature_b64)
         THEN Return(t, ReleaseResult(frequency_key, station_id, signature_b64, FALSE))
       ELSE Goto(t, "release_write",
                 [key |-> frequency_key, station_id |-> station_id,
                  signature_b64 |-> signature_b64, owner_pk |-> a.owner_public_key])
    /\ UNCHANGED <<svc, registry, seen_messages, max_frequencies_per_owner, events, now, accepted>>

\* Lines 127-139: read the owner key under a read guard, verify
ReleaseBegin(t, frequency_key, station_id, signature_b64) ==
    LET a == reg_get(registry, frequency_key) IN
    /\ Start(t)
    /\ IF a = None \/ a.station_id # station_id
         THEN Return(t, ReleaseResult(frequency_key, station_id, signature_b64, FALSE))
       ELSE IF ~VerifyRelease(a.owner_public_key, frequency_key, station_id, signature_b64)
         THEN Return(t, ReleaseResult(frequency_key, station_id, signature_b64, FALSE))
       ELSE Goto(t, "release_write",
                 [key |-> frequency_key, station_id |-> station_id,
                  signature_b64 |-> signature_b64, owner_pk |-> a.owner_public_key])
    /\ UNCHANGED <<svc, registry, seen_messages, max_frequencies_per_owner, events, now, accepted>>

\* Lines 141-148: look again under the write guard, remove
ReleaseWrite(t) ==
    /\ pc[t] = "release_write"
    /\ LET key == loc[t].key
           a == reg_get(registry, key)
       IN  IF a = None \/ a.station_id # loc[t].station_id
             THEN /\ Return(t, ReleaseResult(key, loc[t].station_id, loc[t].signature_b64, FALSE))
                  /\ UNCHANGED registry
             ELSE /\ registry' = reg_remove(registry, key)
                  /\ Goto(t, "release_emit",
                          [key |-> key, station_id |-> loc[t].station_id,
                           signature_b64 |-> loc[t].signature_b64, removed |-> a])
    /\ UNCHANGED <<svc, seen_messages, max_frequencies_per_owner, events, now, calls_left, accepted>>

\* Lines 149-150: the delete event, sent after the guard is dropped
ReleaseEmit(t) ==
    /\ pc[t] = "release_emit"
    /\ events' = Append(events, [event |-> "delete", assignment |-> loc[t].removed])
    /\ Return(t, ReleaseResult(loc[t].key, loc[t].station_id, loc[t].signature_b64, TRUE))
    /\ UNCHANGED <<svc, registry, seen_messages, max_frequencies_per_owner, now, calls_left, accepted>>

----------------------------------------------------------------------------
(* state.rs: expire_assignments *)

ExpireResult == [op |-> "expire", kind |-> "Ok"]

\* The scan with < in place of <= at line 159
Expired_Strict(reg, t_now) == { e.key : e \in { x \in reg : x.val.expires_at < t_now } }

\* Lines 157-162: the keys whose entry has expires_at <= now
Expired(reg, t_now) == { e.key : e \in { x \in reg : x.val.expires_at <= t_now } }

\* All orders in which the HashMap iteration may have pushed the keys
Orders(S) == { q \in [1 .. Cardinality(S) -> S] : \A i, j \in 1 .. Cardinality(S) : q[i] = q[j] => i = j }

\* The removal loop that removes nothing
RemoveAll_Nothing(reg, to_remove) == [reg |-> reg, sent |-> <<>>]

\* Lines 166-170: remove each listed key that is still present
RECURSIVE RemoveAll(_, _)
RemoveAll(reg, to_remove) ==
    IF to_remove = <<>> THEN [reg |-> reg, sent |-> <<>>]
    ELSE LET removed == reg_get(reg, Head(to_remove))
             rest == RemoveAll(reg_remove(reg, Head(to_remove)), Tail(to_remove))
         IN  IF removed # None
               THEN [reg |-> rest.reg,
                     sent |-> <<[event |-> "delete", assignment |-> removed]>> \o rest.sent]
               ELSE rest

\* Lines 154-164: collect under a read guard
ExpireBegin(t) ==
    /\ Start(t)
    /\ \E to_remove \in Orders(Expired(registry, now)) :
         IF to_remove = <<>>
           THEN Return(t, ExpireResult)
           ELSE Goto(t, "expire_write", [to_remove |-> to_remove, now |-> now])
    /\ UNCHANGED <<svc, registry, seen_messages, max_frequencies_per_owner, events, now, accepted>>

\* Lines 165-172: remove under the write guard, one delete event per removal
ExpireWrite(t) ==
    /\ pc[t] = "expire_write"
    /\ LET r == RemoveAll(registry, loc[t].to_remove) IN
         /\ registry' = r.reg
         /\ events' = events \o r.sent
    /\ Return(t, ExpireResult)
    /\ UNCHANGED <<svc, seen_messages, max_frequencies_per_owner, now, calls_left, accepted>>

----------------------------------------------------------------------------
(* state.rs: import_assignment, the read paths, the clock *)

\* The import that keeps the existing row when the owners differ, the
\* second arm of the match at lines 220-222 left out
import_assignment_KeepOwner(t, assignment) ==
    LET key == normalize_frequency_key(assignment.frequency)
        existing == reg_get(registry, key)
    IN
    /\ Start(t)
    /\ registry' = IF existing # None /\ existing.owner_public_key # assignment.owner_public_key
                   THEN registry
                   ELSE reg_insert(registry, key, assignment)
    /\ events' = Append(events, [event |-> "upsert", assignment |-> assignment])
    /\ Return(t, [op |-> "import", kind |-> "Ok", assignment |-> assignment])
    /\ UNCHANGED <<svc, seen_messages, max_frequencies_per_owner, now, accepted>>

\* Lines 212-229: every arm of the match inserts the incoming row
import_assignment(t, assignment) ==
    LET key == normalize_frequency_key(assignment.frequency) IN
    /\ Start(t)
    /\ registry' = reg_insert(registry, key, assignment)
    /\ events' = Append(events, [event |-> "upsert", assignment |-> assignment])
    /\ Return(t, [op |-> "import", kind |-> "Ok", assignment |-> assignment])
    /\ UNCHANGED <<svc, seen_messages, max_frequencies_per_owner, now, accepted>>

\* The read-side filter with >= in place of > at line 178
snapshot_registry_Inclusive(reg, t_now) == { a \in reg_values(reg) : a.expires_at >= t_now }

\* Lines 175-179
snapshot_registry(reg, t_now) == { a \in reg_values(reg) : a.expires_at > t_now }

\* Lines 181-183
get_assignment_by_key(reg, frequency_key) == reg_get(reg, frequency_key)

Tick ==
    /\ now < MaxTime
    /\ now' = now + 1
    /\ UNCHANGED <<svc, registry, seen_messages, max_frequencies_per_owner, events, pc, loc, ret, calls_left, accepted>>

----------------------------------------------------------------------------
(* tokio::sync::broadcast as AppState uses it (state.rs lines 48-50):       *)
(* a ring of slots, each stamped with the position of the item it holds,    *)
(* a tail position, and the number of live receivers                        *)

NowPlayings == { [title |-> "a"], [title |-> "b"] }
Subscribers == {"c1", "c2"}

\* channel(capacity) rounds the ring up to a power of two
NextPowerOfTwo(n) ==
    CHOOSE p \in 1 .. (2 * n) :
        /\ p >= n
        /\ \E k \in 0 .. n : p = 2 ^ k
        /\ \A q \in 1 .. (2 * n) : (q >= n /\ \E k \in 0 .. n : q = 2 ^ k) => p <= q

\* broadcast::channel(capacity); the receiver it returns is dropped when
\* AppState::new returns
broadcast_channel(capacity) ==
    LET len == NextPowerOfTwo(capacity) IN
    [buffer |-> [i \in 0 .. (len - 1) |-> [pos |-> i - len, val |-> None]],
     pos |-> 0,
     rx_cnt |-> 0]

RingLen(ch) == Cardinality(DOMAIN ch.buffer)

\* Sender::send: with no receiver the value is handed back and nothing is
\* stored; otherwise it overwrites the slot at the tail.  It never waits.
broadcast_send(ch, v) ==
    IF ch.rx_cnt = 0
      THEN ch
      ELSE [ch EXCEPT !.buffer[ch.pos % RingLen(ch)] = [pos |-> ch.pos, val |-> v],
                      !.pos = ch.pos + 1]

\* Sender::subscribe: a receiver that starts at the tail
broadcast_subscribe(ch) == [ch EXCEPT !.rx_cnt = ch.rx_cnt + 1]

\* Receiver::drop
broadcast_drop(ch) == [ch EXCEPT !.rx_cnt = ch.rx_cnt - 1]

\* Receiver::try_recv for a receiver whose cursor is next: the item and the
\* cursor after it, Lagged(missed) with the cursor moved to the oldest slot
\* still held, or Empty
broadcast_recv_FromTail(ch, next) ==
    LET slot == ch.buffer[next % RingLen(ch)] IN
    IF slot.pos = next
      THEN [kind |-> "Ok", item |-> [pos |-> slot.pos, val |-> slot.val], missed |-> 0, next |-> next + 1]
    ELSE IF next = ch.pos
      THEN [kind |-> "Empty", item |-> None, missed |-> 0, next |-> next]
    ELSE LET newest == ch.pos - 1 IN
         [kind |-> "Lagged", item |-> None, missed |-> newest - next, next |-> newest]

broadcast_recv(ch, next) ==
    LET slot == ch.buffer[next % RingLen(ch)] IN
    IF slot.pos = next
      THEN [kind |-> "Ok", item |-> [pos |-> slot.pos, val |-> slot.val], missed |-> 0, next |-> next + 1]
    ELSE IF next = ch.pos
      THEN [kind |-> "Empty", item |-> None, missed |-> 0, next |-> next]
    ELSE LET oldest == ch.pos - RingLen(ch) IN
         [kind |-> "Lagged", item |-> None, missed |-> oldest - next, next |-> oldest]

----------------------------------------------------------------------------
(* state.rs: set_now_playing, get_now_playing; http.rs: now_events_sse      *)

NowResult(np) == [op |-> "set_now_playing", np |-> np]

\* Lines 232-235: the cell is replaced under its write guard, which is then
\* dropped
SetNowWrite(t, np) ==
    /\ Start(t)
    /\ now_playing' = np
    /\ Goto(t, "now_send", [np |-> np])
    /\ UNCHANGED <<registry, seen_messages, max_frequencies_per_owner, events, now, accepted, outbound, cancelled,
                   advertise_ttl_secs, interval, seen_lock, registry_lock,
                   now_tx, now_sent, now_rx, delivered>>

\* Line 236: the value is published
SetNowSend_WaitsForRoom(t) ==
    /\ pc[t] = "now_send"
    /\ \A c \in Subscribers :
         now_rx[c].state # "none" => now_tx.pos - now_rx[c].next < RingLen(now_tx)
    /\ now_tx' = broadcast_send(now_tx, loc[t].np)
    /\ now_sent' = Append(now_sent, loc[t].np)
    /\ Return(t, NowResult(loc[t].np))
    /\ UNCHANGED <<registry, seen_messages, max_frequencies_per_owner, events, now, accepted, outbound, cancelled,
                   advertise_ttl_secs, interval, seen_lock, registry_lock,
                   calls_left, now_playing, now_rx, delivered>>

SetNowSend(t) ==
    /\ pc[t] = "now_send"
    /\ now_tx' = broadcast_send(now_tx, loc[t].np)
    /\ now_sent' = Append(now_sent, loc[t].np)
    /\ Return(t, NowResult(loc[t].np))
    /\ UNCHANGED <<registry, seen_messages, max_frequencies_per_owner, events, now, accepted, outbound, cancelled,
                   advertise_ttl_secs, interval, seen_lock, registry_lock,
                   calls_left, now_playing, now_rx, delivered>>

\* Lines 239-241
get_now_playing == now_playing

NoReceiver == [state |-> "none", next |-> 0]

\* http.rs line 76: the handler subscribes
NowSubscribe(c) ==
    /\ now_rx[c].state = "none"
    /\ now_tx' = broadcast_subscribe(now_tx)
    /\ now_rx' = [now_rx EXCEPT ![c] = [state |-> "subscribed", next |-> now_tx.pos]]
    /\ UNCHANGED <<registry, seen_messages, max_frequencies_per_owner, events, now, accepted, outbound, cancelled,
                   advertise_ttl_secs, interval, seen_lock, registry_lock,
                   pc, loc, ret, calls_left, now_playing, now_sent, delivered>>

\* http.rs lines 86-93: the initial event, read from the cell, goes first
NowInitial(c) ==
    /\ now_rx[c].state = "subscribed"
    /\ now_rx' = [now_rx EXCEPT ![c].state = "streaming"]
    /\ delivered' = [delivered EXCEPT ![c] =
                       IF get_now_playing = None THEN <<>>
                       ELSE << [pos |-> -1, val |-> get_now_playing] >>]
    /\ UNCHANGED <<registry, seen_messages, max_frequencies_per_owner, events, now, accepted, outbound, cancelled,
                   advertise_ttl_secs, interval, seen_lock, registry_lock,
                   pc, loc, ret, calls_left, now_playing, now_tx, now_sent>>

\* http.rs lines 77-85: one poll of BroadcastStream under filter_map: an item
\* is yielded to the client, a Lagged error is turned into nothing
filter_map(c, r) ==
    IF r.kind = "Ok" THEN Append(delivered[c], r.item) ELSE delivered[c]

NowPoll(c) ==
    /\ now_rx[c].state = "streaming"
    /\ LET r == broadcast_recv(now_tx, now_rx[c].next) IN
         /\ r.kind # "Empty"
         /\ now_rx' = [now_rx EXCEPT ![c].next = r.next]
         /\ delivered' = [delivered EXCEPT ![c] = filter_map(c, r)]
    /\ UNCHANGED <<registry, seen_messages, max_frequencies_per_owner, events, now, accepted, outbound, cancelled,
                   advertise_ttl_secs, interval, seen_lock, registry_lock,
                   pc, loc, ret, calls_left, now_playing, now_tx, now_sent>>

\* The client goes away and the stream, with its receiver, is dropped
NowDisconnect(c) ==
    /\ now_rx[c].state = "streaming"
    /\ now_tx' = broadcast_drop(now_tx)
    /\ now_rx' = [now_rx EXCEPT ![c] = NoReceiver]
    /\ delivered' = [delivered EXCEPT ![c] = <<>>]
    /\ UNCHANGED <<registry, seen_messages, max_frequencies_per_owner, events, now, accepted, outbound, cancelled,
                   advertise_ttl_secs, interval, seen_lock, registry_lock,
                   pc, loc, ret, calls_left, now_playing, now_sent>>

----------------------------------------------------------------------------
(* tokio::sync::RwLock as state.rs uses it: many readers or one writer,     *)
(* waiters served in the order of their requests                            *)

NoTask == "none"

\* RwLock::new: nobody holds the lock, nobody waits
rwlock_new == [readers |-> {}, writer |-> NoTask, waiters |-> <<>>]

\* .read().await / .write().await: the task joins the queue
rwlock_request(l, t, mode) == [l EXCEPT !.waiters = Append(@, [task |-> t, mode |-> mode])]

\* The request at the head of the queue is t's and the lock can serve it
rwlock_ready(l, t) ==
    /\ l.waiters # <<>>
    /\ Head(l.waiters).task = t
    /\ l.writer = NoTask
    /\ Head(l.waiters).mode = "write" => l.readers = {}

\* The head of the queue becomes a holder
rwlock_acquire(l) ==
    LET w == Head(l.waiters) IN
    IF w.mode = "write"
      THEN [l EXCEPT !.writer = w.task, !.waiters = Tail(@)]
      ELSE [l EXCEPT !.readers = @ \cup {w.task}, !.waiters = Tail(@)]

\* The guard is dropped
rwlock_release(l, t) ==
    [l EXCEPT !.readers = @ \ {t}, !.writer = IF @ = t THEN NoTask ELSE @]

rwlock_holds(l, t) == t \in l.readers \/ l.writer = t

rwlock_waits(l, t) == \E i \in 1 .. Len(l.waiters) : l.waiters[i].task = t

----------------------------------------------------------------------------
(* Specifications *)

\* AppState::new, lines 42-66
InitState(max, calls) ==
    /\ registry = {}
    /\ seen_messages = {}
    /\ max_frequencies_per_owner = max
    /\ events = <<>>
    /\ now = 0
    /\ pc = [t \in Tasks |-> "idle"]
    /\ loc = [t \in Tasks |-> None]
    /\ ret = [t \in Tasks |-> None]
    /\ calls_left = calls
    /\ accepted = {}
    /\ now_playing = None
    /\ now_tx = broadcast_channel(NowCapacity)
    /\ now_sent = <<>>
    /\ outbound = <<>>
    /\ cancelled = FALSE
    /\ advertise_ttl_secs = MinTtl
    /\ interval = 0
    /\ seen_lock = rwlock_new
    /\ registry_lock = rwlock_new
    /\ now_rx = [c \in Subscribers |-> NoReceiver]
    /\ delivered = [c \in Subscribers |-> <<>>]

\* A node configured with the smallest cap the configuration allows
Init == InitState(MinCap, MaxOps)

Next ==
    \/ \E t \in Tasks, ad \in Advertisements : AcceptBegin(t, ad)
    \/ \E t \in Tasks : AcceptWrite(t)
    \/ \E t \in Tasks : AcceptEmit(t)
    \/ \E t \in Tasks, k \in Keys, s \in StationIds :
         \E sig \in ReleaseSignatures(k, s) : ReleaseBegin(t, k, s, sig)
    \/ \E t \in Tasks : ReleaseWrite(t)
    \/ \E t \in Tasks : ReleaseEmit(t)
    \/ \E t \in Tasks : ExpireBegin(t)
    \/ \E t \in Tasks : ExpireWrite(t)
    \/ \E t \in Tasks, a \in ImportAssignments : import_assignment(t, a)
    \/ Tick

Spec == Init /\ [][Next]_vars

\* A node with a cap of MaxCap, fed the publisher's advertisements for the
\* frequencies 90.0, 91 and 92, with releases and sweeps, for one call more
InitCap == InitState(MaxCap, MaxOps + 1)

NextCap ==
    \/ \E t \in Tasks, ad \in CapAdvertisements : AcceptBegin(t, ad)
    \/ \E t \in Tasks : AcceptWrite(t)
    \/ \E t \in Tasks : AcceptEmit(t)
    \/ \E t \in Tasks, f \in CapFrequencies :
         \E sig \in ReleaseSignatures(normalize_frequency_key(f), CapStation(f)) :
            ReleaseBegin(t, normalize_frequency_key(f), CapStation(f), sig)
    \/ \E t \in Tasks : ReleaseWrite(t)
    \/ \E t \in Tasks : ReleaseEmit(t)
    \/ \E t \in Tasks : ExpireBegin(t)
    \/ \E t \in Tasks : ExpireWrite(t)
    \/ Tick

SpecCap == InitCap /\ [][NextCap]_vars

\* One station on one frequency and its two possible owners: advertisements
\* stamped at any time of the clock, releases, sweeps and imported rows, for
\* one call more, so that a call in flight can be overtaken by another
RaceFrequency == [int_val |-> 91, scale |-> 0]

RaceKey == normalize_frequency_key(RaceFrequency)

RaceAdvertisements ==
    { SignedAd([message_id |-> m, station_id |-> "s1", frequency |-> RaceFrequency,
                name |-> "n1", stream_url |-> "u1", advertised_at |-> at,
                ttl_seconds |-> ttl, owner_public_key |-> k]) :
        m \in MessageIds, at \in 0 .. MaxTime, ttl \in Ttls, k \in OwnerKeys }

RaceImports ==
    { [station_id |-> "s1", frequency |-> RaceFrequency, name |-> "n1",
       stream_url |-> "u1", created_at |-> 0, last_seen |-> at,
       expires_at |-> at + ttl, owner_public_key |-> k] :
        at \in 0 .. MaxTime, ttl \in Ttls, k \in OwnerKeys }

InitRace == InitState(MinCap, MaxOps + 1)

NextRace ==
    \/ \E t \in Tasks, ad \in RaceAdvertisements : AcceptBegin(t, ad)
    \/ \E t \in Tasks : AcceptWrite(t)
    \/ \E t \in Tasks : AcceptEmit(t)
    \/ \E t \in Tasks, s \in StationIds : \E sig \in ReleaseSignatures(RaceKey, s) :
            ReleaseBegin(t, RaceKey, s, sig)
    \/ \E t \in Tasks : ReleaseWrite(t)
    \/ \E t \in Tasks : ReleaseEmit(t)
    \/ \E t \in Tasks : ExpireBegin(t)
    \/ \E t \in Tasks : ExpireWrite(t)
    \/ \E t \in Tasks, a \in RaceImports : import_assignment(t, a)
    \/ Tick

SpecRace == InitRace /\ [][NextRace]_vars

\* The node with its periodic sweeper (main.rs, the expiry task): the first
\* task takes the calls, advertisements of one owner for two frequencies
\* stamped at any time of the clock and sweeps on demand; the second task is
\* the sweeper, which calls expire_assignments again and again
SweepAdvertisements ==
    { SignedAd([message_id |-> m, station_id |-> "s1", frequency |-> f,
                name |-> "n1", stream_url |-> "u1", advertised_at |-> at,
                ttl_seconds |-> ttl, owner_public_key |-> "K1"]) :
        m \in MessageIds, f \in Frequencies, at \in 0 .. MaxTime, ttl \in Ttls }

\* main.rs lines 157-167: one turn of the sweeper's loop, the read side of
\* expire_assignments
SweeperBegin ==
    /\ pc["t2"] = "idle"
    /\ \E to_remove \in Orders(Expired(registry, now)) :
         IF to_remove = <<>>
           THEN Return("t2", ExpireResult)
           ELSE Goto("t2", "expire_write", [to_remove |-> to_remove, now |-> now])
    /\ UNCHANGED <<svc, registry, seen_messages, max_frequencies_per_owner, events, now,
                   calls_left, accepted>>

InitSweep == InitState(MaxCap, MaxOps + 1)

NextSweep ==
    \/ \E ad \in SweepAdvertisements : AcceptBegin("t1", ad)
    \/ AcceptWrite("t1")
    \/ AcceptEmit("t1")
    \/ ExpireBegin("t1")
    \/ ExpireWrite("t1")
    \/ SweeperBegin
    \/ ExpireWrite("t2")
    \/ Tick

\* The sweeper's task is scheduled again and again, and a sweep that has
\* begun runs to its end
SpecSweep ==
    /\ InitSweep /\ [][NextSweep]_vars
    /\ WF_vars(SweeperBegin) /\ WF_vars(ExpireWrite("t2"))

\* The now-playing cell and its channel: the ipc connections' tasks set the
\* cell (ipc.rs line 22, one task per connection), clients of
\* /api/v1/now/events come, read and go
InitNow == InitState(MinCap, MaxOps + 2)

NextNow ==
    \/ \E t \in Tasks, np \in NowPlayings : SetNowWrite(t, np)
    \/ \E t \in Tasks : SetNowSend(t)
    \/ \E c \in Subscribers : NowSubscribe(c)
    \/ \E c \in Subscribers : NowInitial(c)
    \/ \E c \in Subscribers : NowPoll(c)
    \/ \E c \in Subscribers : NowDisconnect(c)

SpecNow == InitNow /\ [][NextNow]_vars

----------------------------------------------------------------------------
(* main.rs: the advertisement task; p2p.rs: the outbound queue and the      *)
(* gossip worker                                                            *)

\* Uuid::new_v4() at each turn of the loop: an id nobody has used
PublisherIds == <<"p1", "p2", "p3">>

\* config.local_station, the --frequency argument as it was typed
LocalStation ==
    [station_id |-> "s1", frequency |-> [int_val |-> 10050, scale |-> 2],
     name |-> "n1", stream_url |-> "u1"]

signing_key == "K1"

\* encode_public_key_b64(&signing_key.verifying_key())
owner_public_key_b64 == signing_key

advertise_ttl == MaxTtl

\* Lines 95-123: the advertisement of one turn, signed in the blocking pool
\* over the canonical bytes of the normalized key
PublisherAd_SignsRawFrequency(message_id, t_now) ==
    LET msg == canonicalize_ad_bytes("advertise", BigDecimalToString(LocalStation.frequency),
                                     uuid_to_string(LocalStation.station_id),
                                     LocalStation.stream_url, to_rfc3339(t_now), advertise_ttl)
    IN  [message_id |-> message_id, station_id |-> LocalStation.station_id,
         frequency |-> LocalStation.frequency, name |-> LocalStation.name,
         stream_url |-> LocalStation.stream_url, advertised_at |-> t_now,
         ttl_seconds |-> advertise_ttl, owner_public_key |-> owner_public_key_b64,
         signature |-> sign_bytes(signing_key, msg)]

PublisherAd(message_id, t_now) ==
    LET freq_key == normalize_frequency_key(LocalStation.frequency)
        msg == canonicalize_ad_bytes("advertise", freq_key,
                                     uuid_to_string(LocalStation.station_id),
                                     LocalStation.stream_url, to_rfc3339(t_now), advertise_ttl)
    IN  [message_id |-> message_id, station_id |-> LocalStation.station_id,
         frequency |-> LocalStation.frequency, name |-> LocalStation.name,
         stream_url |-> LocalStation.stream_url, advertised_at |-> t_now,
         ttl_seconds |-> advertise_ttl, owner_public_key |-> owner_public_key_b64,
         signature |-> sign_bytes(signing_key, msg)]

\* Lines 94-124: a turn of the loop begins; the task builds its
\* advertisement and calls accept_advertisement
PublisherAccept ==
    /\ ret["publisher"] = None
    /\ \E i \in 1 .. Len(PublisherIds) :
         /\ PublisherIds[i] \notin seen_messages
         /\ \A j \in 1 .. (i - 1) : PublisherIds[j] \in seen_messages
         /\ AcceptBegin("publisher", PublisherAd(PublisherIds[i], now))

\* p2p.rs lines 43-45: tx.send(..).await on the bounded queue, which
\* completes when the queue has room
publish_advertisement(q, ad) == Append(q, [type |-> "Advertise", ad |-> ad])

\* Lines 124-133: the match on the result.  Ok: the advertisement goes to the
\* outbound queue; Err: a warning.  Then the task waits for the next tick.
PublisherMatch_PublishesAlways ==
    /\ pc["publisher"] = "idle"
    /\ ret["publisher"] # None
    /\ Len(outbound) < OutboundCapacity
    /\ outbound' = publish_advertisement(outbound,
                       PublisherAd(ret["publisher"].ad.message_id, ret["publisher"].ad.advertised_at))
    /\ ret' = [ret EXCEPT !["publisher"] = None]
    /\ UNCHANGED <<registry, seen_messages, max_frequencies_per_owner, events, now, accepted,
                   pc, loc, calls_left, now_playing, now_tx, now_sent, now_rx, delivered, cancelled,
                   advertise_ttl_secs, interval, seen_lock, registry_lock>>

PublisherMatch ==
    /\ pc["publisher"] = "idle"
    /\ ret["publisher"] # None
    /\ IF ret["publisher"].kind = "Ok"
         THEN /\ Len(outbound) < OutboundCapacity
              /\ outbound' = publish_advertisement(outbound,
                                 PublisherAd(ret["publisher"].ad.message_id,
                                             ret["publisher"].ad.advertised_at))
         ELSE UNCHANGED outbound
    /\ ret' = [ret EXCEPT !["publisher"] = None]
    /\ UNCHANGED <<registry, seen_messages, max_frequencies_per_owner, events, now, accepted,
                   pc, loc, calls_left, now_playing, now_tx, now_sent, now_rx, delivered, cancelled,
                   advertise_ttl_secs, interval, seen_lock, registry_lock>>

\* p2p.rs lines 149-163: the worker takes a command from the queue and
\* publishes it on the gossipsub topic
GossipWorkerSend ==
    /\ pc["t1"] = "idle"
    /\ outbound # <<>>
    /\ outbound' = Tail(outbound)
    /\ UNCHANGED <<registry, seen_messages, max_frequencies_per_owner, events, now, accepted,
                   pc, loc, ret, calls_left, now_playing, now_tx, now_sent, now_rx, delivered, cancelled,
                   advertise_ttl_secs, interval, seen_lock, registry_lock>>

\* p2p.rs lines 165-172: the advertisements another node gossips for its
\* station s2, under the local owner's key or another, for the local
\* frequency or another
GossipAdvertisements ==
    { SignedAd([message_id |-> "m1", station_id |-> "s2", frequency |-> f,
                name |-> "n1", stream_url |-> "u1", advertised_at |-> 0,
                ttl_seconds |-> ttl, owner_public_key |-> k]) :
        f \in Frequencies, ttl \in Ttls, k \in OwnerKeys }

\* The node is asked to stop
Cancel ==
    /\ ~cancelled
    /\ cancelled' = TRUE
    /\ UNCHANGED <<registry, seen_messages, max_frequencies_per_owner, events, now, accepted,
                   pc, loc, ret, calls_left, now_playing, now_tx, now_sent, now_rx, delivered, outbound,
                   advertise_ttl_secs, interval, seen_lock, registry_lock>>

\* The tasks main spawns: the advertisement task, the gossip worker (t1)
\* and the expiry task (t2)
InitPub ==
    /\ registry = {}
    /\ seen_messages = {}
    /\ max_frequencies_per_owner = MinCap
    /\ events = <<>>
    /\ now = 0
    /\ pc = [t \in Tasks \cup {"publisher"} |-> "idle"]
    /\ loc = [t \in Tasks \cup {"publisher"} |-> None]
    /\ ret = [t \in Tasks \cup {"publisher"} |-> None]
    /\ calls_left = MaxOps + 1
    /\ accepted = {}
    /\ now_playing = None
    /\ now_tx = broadcast_channel(NowCapacity)
    /\ now_sent = <<>>
    /\ now_rx = [c \in Subscribers |-> NoReceiver]
    /\ delivered = [c \in Subscribers |-> <<>>]
    /\ outbound = <<>>
    /\ cancelled = FALSE
    /\ advertise_ttl_secs = MinTtl
    /\ interval = 0
    /\ seen_lock = rwlock_new
    /\ registry_lock = rwlock_new

NextPub ==
    \/ PublisherAccept
    \/ AcceptWrite("publisher")
    \/ AcceptEmit("publisher")
    \/ PublisherMatch
    \/ GossipWorkerSend
    \/ \E ad \in GossipAdvertisements : AcceptBegin("t1", ad)
    \/ AcceptWrite("t1")
    \/ AcceptEmit("t1")
    \/ SweeperBegin
    \/ ExpireWrite("t2")
    \/ Tick
    \/ Cancel

SpecPub == InitPub /\ [][NextPub]_vars

----------------------------------------------------------------------------
(* main.rs: the advertisement task against the clock, in seconds            *)

\* The floor of the period at line 93, in seconds
MinPeriod == 10

\* The TTLs the node is started with: the smallest the configuration
\* allows, the next one, and one whose half exceeds the floor of the period
HeartbeatTtls == {MinTtl, MinTtl + 1, 2 * MinTtl + 2}

\* The clock runs for two periods of the longest TTL
MaxBeatTime == 23

\* Uuid::new_v4() at each turn of the loop
HeartbeatIds == <<"h1", "h2", "h3", "h4", "h5">>

Max(a, b) == IF a >= b THEN a ELSE b

\* Line 93: Duration::from_secs((advertise_ttl / 2).max(10))
HeartbeatPeriod(ttl) == Max(ttl \div 2, MinPeriod)

\* Lines 95-123 with the configured TTL
HeartbeatAd(message_id, t_now, ttl) ==
    LET freq_key == normalize_frequency_key(LocalStation.frequency)
        msg == canonicalize_ad_bytes("advertise", freq_key,
                                     uuid_to_string(LocalStation.station_id),
                                     LocalStation.stream_url, to_rfc3339(t_now), ttl)
    IN  [message_id |-> message_id, station_id |-> LocalStation.station_id,
         frequency |-> LocalStation.frequency, name |-> LocalStation.name,
         stream_url |-> LocalStation.stream_url, advertised_at |-> t_now,
         ttl_seconds |-> ttl, owner_public_key |-> owner_public_key_b64,
         signature |-> sign_bytes(signing_key, msg)]

\* Lines 94-124: a turn of the loop; advertised_at is the clock at its top
HeartbeatAccept ==
    /\ ret["publisher"] = None
    /\ \E i \in 1 .. Len(HeartbeatIds) :
         /\ HeartbeatIds[i] \notin seen_messages
         /\ \A j \in 1 .. (i - 1) : HeartbeatIds[j] \in seen_messages
         /\ AcceptBegin("publisher", HeartbeatAd(HeartbeatIds[i], now, advertise_ttl_secs))

\* Lines 124-132: the match on the result; the task then stands at
\* interval.tick().await
HeartbeatMatch ==
    /\ pc["publisher"] = "idle"
    /\ ret["publisher"] # None
    /\ IF ret["publisher"].kind = "Ok"
         THEN /\ Len(outbound) < OutboundCapacity
              /\ outbound' = publish_advertisement(outbound,
                                 HeartbeatAd(ret["publisher"].ad.message_id,
                                             ret["publisher"].ad.advertised_at,
                                             advertise_ttl_secs))
         ELSE UNCHANGED outbound
    /\ pc' = [pc EXCEPT !["publisher"] = "interval_tick"]
    /\ ret' = [ret EXCEPT !["publisher"] = None]
    /\ UNCHANGED <<registry, seen_messages, max_frequencies_per_owner, events, now, accepted,
                   loc, calls_left, now_playing, now_tx, now_sent, now_rx, delivered, cancelled,
                   advertise_ttl_secs, interval, seen_lock, registry_lock>>

\* Line 133: interval.tick().await completes once the clock has reached the
\* deadline, at once the first time, and moves the deadline on by one period
IntervalTick ==
    /\ pc["publisher"] = "interval_tick"
    /\ now >= interval
    /\ interval' = interval + HeartbeatPeriod(advertise_ttl_secs)
    /\ pc' = [pc EXCEPT !["publisher"] = "idle"]
    /\ UNCHANGED <<registry, seen_messages, max_frequencies_per_owner, events, now, accepted,
                   loc, ret, calls_left, now_playing, now_tx, now_sent, now_rx, delivered,
                   outbound, cancelled, advertise_ttl_secs,
                   seen_lock, registry_lock>>

\* A second passes.  The advertisement task's turn takes no time of the
\* clock: the clock moves only while the task waits for a tick that is not
\* due yet.
HeartbeatClock ==
    /\ now < MaxBeatTime
    /\ pc["publisher"] = "interval_tick"
    /\ now < interval
    /\ now' = now + 1
    /\ UNCHANGED <<svc, registry, seen_messages, max_frequencies_per_owner, events, pc, loc, ret,
                   calls_left, accepted>>

\* The node started with a local station and one of the TTLs; the interval
\* is created at line 93, its first deadline the time of its creation
InitBeat ==
    /\ registry = {}
    /\ seen_messages = {}
    /\ max_frequencies_per_owner = MinCap
    /\ events = <<>>
    /\ now = 0
    /\ pc = [t \in Tasks \cup {"publisher"} |-> "idle"]
    /\ loc = [t \in Tasks \cup {"publisher"} |-> None]
    /\ ret = [t \in Tasks \cup {"publisher"} |-> None]
    /\ calls_left = Len(HeartbeatIds)
    /\ accepted = {}
    /\ now_playing = None
    /\ now_tx = broadcast_channel(NowCapacity)
    /\ now_sent = <<>>
    /\ now_rx = [c \in Subscribers |-> NoReceiver]
    /\ delivered = [c \in Subscribers |-> <<>>]
    /\ outbound = <<>>
    /\ cancelled = FALSE
    /\ advertise_ttl_secs \in HeartbeatTtls
    /\ interval = 0
    /\ seen_lock = rwlock_new
    /\ registry_lock = rwlock_new

\* The advertisement task, the gossip worker emptying the queue and the
\* expiry task; no other node advertises, so that nothing conflicts
NextBeat ==
    \/ HeartbeatAccept
    \/ AcceptWrite("publisher")
    \/ AcceptEmit("publisher")
    \/ HeartbeatMatch
    \/ IntervalTick
    \/ GossipWorkerSend
    \/ SweeperBegin
    \/ ExpireWrite("t2")
    \/ HeartbeatClock

SpecBeat == InitBeat /\ [][NextBeat]_vars

----------------------------------------------------------------------------
(* state.rs: the registry operations with their locks.  Each .read().await  *)
(* and .write().await is a request that the lock serves in its turn; a      *)
(* guard is dropped where its scope ends.                                   *)

\* The state these operations leave alone
rest == <<max_frequencies_per_owner, now_playing, now_tx, now_sent, now_rx, delivered, outbound,
          cancelled, advertise_ttl_secs, interval>>

\* The task waits for a lock; it goes on at label then once it holds it
Await(t, lock, then, locals) ==
    Goto(t, "await", [lock |-> lock, then |-> then, locals |-> locals])

\* The lock serves the task's request
LockAcquire(t) ==
    /\ pc[t] = "await"
    /\ IF loc[t].lock = "seen"
         THEN /\ rwlock_ready(seen_lock, t)
              /\ seen_lock' = rwlock_acquire(seen_lock)
              /\ UNCHANGED registry_lock
         ELSE /\ rwlock_ready(registry_lock, t)
              /\ registry_lock' = rwlock_acquire(registry_lock)
              /\ UNCHANGED seen_lock
    /\ pc' = [pc EXCEPT ![t] = loc[t].then]
    /\ loc' = [loc EXCEPT ![t] = loc[t].locals]
    /\ UNCHANGED <<rest, registry, seen_messages, events, now, ret, calls_left, accepted>>

\* Lines 69-71: accept_advertisement asks for the seen_messages write guard
LockAcceptCall(t, ad) ==
    /\ Start(t)
    /\ seen_lock' = rwlock_request(seen_lock, t, "write")
    /\ Await(t, "seen", "accept_seen",
             [ad |-> ad, key |-> normalize_frequency_key(ad.frequency)])
    /\ UNCHANGED <<rest, registry, seen_messages, events, now, accepted, registry_lock>>

\* Lines 72-78: the insert; a fresh id drops the guard at the end of the
\* block, an id seen before asks for the registry read guard under it
LockAcceptSeen(t) ==
    /\ pc[t] = "accept_seen"
    /\ seen_messages' = seen_messages \cup {loc[t].ad.message_id}
    /\ IF loc[t].ad.message_id \in seen_messages
         THEN /\ registry_lock' = rwlock_request(registry_lock, t, "read")
              /\ Await(t, "registry", "accept_replay", loc[t])
              /\ UNCHANGED seen_lock
         ELSE /\ seen_lock' = rwlock_release(seen_lock, t)
              /\ Goto(t, "accept_verify", loc[t])
              /\ UNCHANGED registry_lock
    /\ UNCHANGED <<rest, registry, events, now, calls_left, accepted>>

\* Lines 74-78: the lookup under both guards, which are dropped on return
\* and at the end of the block
LockAcceptReplay(t) ==
    /\ pc[t] = "accept_replay"
    /\ registry_lock' = rwlock_release(registry_lock, t)
    /\ seen_lock' = rwlock_release(seen_lock, t)
    /\ IF reg_contains_key(registry, loc[t].key)
         THEN Return(t, AcceptResult(loc[t].ad, "Ok", reg_get(registry, loc[t].key), FALSE))
         ELSE Goto(t, "accept_verify", loc[t])
    /\ UNCHANGED <<rest, registry, seen_messages, events, now, calls_left, accepted>>

\* Lines 80-91: the signature check without a guard, then the request for
\* the registry write guard
LockAcceptVerify(t) ==
    /\ pc[t] = "accept_verify"
    /\ IF ~VerifyAdvertisement(loc[t].ad, loc[t].key)
         THEN /\ Return(t, AcceptResult(loc[t].ad, "InvalidSignature", None, FALSE))
              /\ UNCHANGED registry_lock
         ELSE /\ registry_lock' = rwlock_request(registry_lock, t, "write")
              /\ Await(t, "registry", "accept_locked", loc[t])
    /\ UNCHANGED <<rest, registry, seen_messages, events, now, calls_left, accepted, seen_lock>>

\* Lines 92-121: the conflict rules and the insert under the write guard,
\* dropped by the early return or by drop(reg)
LockAcceptWrite(t) ==
    /\ pc[t] = "accept_locked"
    /\ registry_lock' = rwlock_release(registry_lock, t)
    /\ LET ad == loc[t].ad
           key == loc[t].key
           c == ConflictCheck(registry, ad, key, max_frequencies_per_owner)
           assignment == NewAssignment(ad, now)
       IN  IF c.kind # "Ok"
             THEN /\ Return(t, AcceptResult(ad, c.kind, c.val, FALSE))
                  /\ UNCHANGED registry
             ELSE /\ registry' = reg_insert(registry, key, assignment)
                  /\ Goto(t, "accept_send", [ad |-> ad, key |-> key, assignment |-> assignment])
    /\ UNCHANGED <<rest, seen_messages, events, now, calls_left, accepted, seen_lock>>

\* Lines 122-123: events_tx.send, which never waits
LockAcceptEmit(t) ==
    /\ pc[t] = "accept_send"
    /\ events' = Append(events, [event |-> "upsert", assignment |-> loc[t].assignment])
    /\ Return(t, AcceptResult(loc[t].ad, "Ok", loc[t].assignment, TRUE))
    /\ accepted' = accepted \cup {loc[t].ad.message_id}
    /\ UNCHANGED <<rest, registry, seen_messages, now, calls_left, seen_lock, registry_lock>>

\* Line 129: release_assignment asks for the registry read guard
LockReleaseCall(t, frequency_key, station_id, signature_b64) ==
    /\ Start(t)
    /\ registry_lock' = rwlock_request(registry_lock, t, "read")
    /\ Await(t, "registry", "release_read",
             [key |-> frequency_key, station_id |-> station_id, signature_b64 |-> signature_b64])
    /\ UNCHANGED <<rest, registry, seen_messages, events, now, accepted, seen_lock>>

\* The read side that asks for the write guard with the read guard still
\* held, the block of lines 128-134 left open
LockReleaseRead_KeepsReadGuard(t) ==
    LET a == reg_get(registry, loc[t].key) IN
    /\ pc[t] = "release_read"
    /\ IF a = None \/ a.station_id # loc[t].station_id
         THEN /\ registry_lock' = rwlock_release(registry_lock, t)
              /\ Return(t, ReleaseResult(loc[t].key, loc[t].station_id, loc[t].signature_b64, FALSE))
       ELSE IF ~VerifyRelease(a.owner_public_key, loc[t].key, loc[t].station_id, loc[t].signature_b64)
         THEN /\ registry_lock' = rwlock_release(registry_lock, t)
              /\ Return(t, ReleaseResult(loc[t].key, loc[t].station_id, loc[t].signature_b64, FALSE))
       ELSE /\ registry_lock' = rwlock_request(registry_lock, t, "write")
            /\ Await(t, "registry", "release_locked", loc[t])
    /\ UNCHANGED <<rest, registry, seen_messages, events, now, calls_left, accepted, seen_lock>>

\* Lines 128-141: the owner key is read, the read guard dropped at the end
\* of the block, the signature verified, the write guard asked for
LockReleaseRead(t) ==
    LET a == reg_get(registry, loc[t].key)
        unlocked == rwlock_release(registry_lock, t)
    IN
    /\ pc[t] = "release_read"
    /\ IF a = None \/ a.station_id # loc[t].station_id
         THEN /\ registry_lock' = unlocked
              /\ Return(t, ReleaseResult(loc[t].key, loc[t].station_id, loc[t].signature_b64, FALSE))
       ELSE IF ~VerifyRelease(a.owner_public_key, loc[t].key, loc[t].station_id, loc[t].signature_b64)
         THEN /\ registry_lock' = unlocked
              /\ Return(t, ReleaseResult(loc[t].key, loc[t].station_id, loc[t].signature_b64, FALSE))
       ELSE /\ registry_lock' = rwlock_request(unlocked, t, "write")
            /\ Await(t, "registry", "release_locked", loc[t])
    /\ UNCHANGED <<rest, registry, seen_messages, events, now, calls_left, accepted, seen_lock>>

\* Lines 142-148: the second look and the removal under the write guard
LockReleaseWrite(t) ==
    LET a == reg_get(registry, loc[t].key) IN
    /\ pc[t] = "release_locked"
    /\ registry_lock' = rwlock_release(registry_lock, t)
    /\ IF a = None \/ a.station_id # loc[t].station_id
         THEN /\ Return(t, ReleaseResult(loc[t].key, loc[t].station_id, loc[t].signature_b64, FALSE))
              /\ UNCHANGED registry
         ELSE /\ registry' = reg_remove(registry, loc[t].key)
              /\ Goto(t, "release_send",
                      [key |-> loc[t].key, station_id |-> loc[t].station_id,
                       signature_b64 |-> loc[t].signature_b64, removed |-> a])
    /\ UNCHANGED <<rest, seen_messages, events, now, calls_left, accepted, seen_lock>>

\* Lines 149-150
LockReleaseEmit(t) ==
    /\ pc[t] = "release_send"
    /\ events' = Append(events, [event |-> "delete", assignment |-> loc[t].removed])
    /\ Return(t, ReleaseResult(loc[t].key, loc[t].station_id, loc[t].signature_b64, TRUE))
    /\ UNCHANGED <<rest, registry, seen_messages, now, calls_left, accepted, seen_lock, registry_lock>>

\* Lines 154-157: expire_assignments reads the clock and asks for the read guard
LockExpireCall(t) ==
    /\ Start(t)
    /\ registry_lock' = rwlock_request(registry_lock, t, "read")
    /\ Await(t, "registry", "expire_read", [now |-> now])
    /\ UNCHANGED <<rest, registry, seen_messages, events, now, accepted, seen_lock>>

\* Lines 157-165: the scan, the read guard dropped at the end of the block,
\* the write guard asked for when something is due
LockExpireRead(t) ==
    /\ pc[t] = "expire_read"
    /\ \E to_remove \in Orders(Expired(registry, loc[t].now)) :
         IF to_remove = <<>>
           THEN /\ registry_lock' = rwlock_release(registry_lock, t)
                /\ Return(t, ExpireResult)
           ELSE /\ registry_lock' = rwlock_request(rwlock_release(registry_lock, t), t, "write")
                /\ Await(t, "registry", "expire_locked", [to_remove |-> to_remove])
    /\ UNCHANGED <<rest, registry, seen_messages, events, now, calls_left, accepted, seen_lock>>

\* Lines 166-172: the removals and their events under the write guard
LockExpireWrite(t) ==
    /\ pc[t] = "expire_locked"
    /\ LET r == RemoveAll(registry, loc[t].to_remove) IN
         /\ registry' = r.reg
         /\ events' = events \o r.sent
    /\ registry_lock' = rwlock_release(registry_lock, t)
    /\ Return(t, ExpireResult)
    /\ UNCHANGED <<rest, seen_messages, now, calls_left, accepted, seen_lock>>

\* Lines 213-214: import_assignment asks for the write guard
LockImportCall(t, assignment) ==
    /\ Start(t)
    /\ registry_lock' = rwlock_request(registry_lock, t, "write")
    /\ Await(t, "registry", "import_locked", [assignment |-> assignment])
    /\ UNCHANGED <<rest, registry, seen_messages, events, now, accepted, seen_lock>>

\* Lines 215-229: the insert and the event under the write guard, which is
\* dropped at the end of the function
LockImportWrite(t) ==
    /\ pc[t] = "import_locked"
    /\ registry' = reg_insert(registry, normalize_frequency_key(loc[t].assignment.frequency),
                              loc[t].assignment)
    /\ events' = Append(events, [event |-> "upsert", assignment |-> loc[t].assignment])
    /\ registry_lock' = rwlock_release(registry_lock, t)
    /\ Return(t, [op |-> "import", kind |-> "Ok", assignment |-> loc[t].assignment])
    /\ UNCHANGED <<rest, seen_messages, now, calls_left, accepted, seen_lock>>

\* Lines 176-177: snapshot_registry reads the clock and asks for the read guard
LockSnapshotCall(t) ==
    /\ Start(t)
    /\ registry_lock' = rwlock_request(registry_lock, t, "read")
    /\ Await(t, "registry", "snapshot_read", [now |-> now])
    /\ UNCHANGED <<rest, registry, seen_messages, events, now, accepted, seen_lock>>

\* Line 178
LockSnapshotRead(t) ==
    /\ pc[t] = "snapshot_read"
    /\ registry_lock' = rwlock_release(registry_lock, t)
    /\ Return(t, [op |-> "snapshot", kind |-> "Ok", val |-> snapshot_registry(registry, loc[t].now)])
    /\ UNCHANGED <<rest, registry, seen_messages, events, now, calls_left, accepted, seen_lock>>

\* Line 182: get_assignment_by_key asks for the read guard
LockGetCall(t, frequency_key) ==
    /\ Start(t)
    /\ registry_lock' = rwlock_request(registry_lock, t, "read")
    /\ Await(t, "registry", "get_read", [key |-> frequency_key])
    /\ UNCHANGED <<rest, registry, seen_messages, events, now, accepted, seen_lock>>

LockGetRead(t) ==
    /\ pc[t] = "get_read"
    /\ registry_lock' = rwlock_release(registry_lock, t)
    /\ Return(t, [op |-> "get", kind |-> "Ok", val |-> get_assignment_by_key(registry, loc[t].key)])
    /\ UNCHANGED <<rest, registry, seen_messages, events, now, calls_left, accepted, seen_lock>>

\* The steps task t takes inside a call
LockStep(t) ==
    \/ LockAcquire(t)
    \/ LockAcceptSeen(t)
    \/ LockAcceptReplay(t)
    \/ LockAcceptVerify(t)
    \/ LockAcceptWrite(t)
    \/ LockAcceptEmit(t)
    \/ LockReleaseRead(t)
    \/ LockReleaseWrite(t)
    \/ LockReleaseEmit(t)
    \/ LockExpireRead(t)
    \/ LockExpireWrite(t)
    \/ LockImportWrite(t)
    \/ LockSnapshotRead(t)
    \/ LockGetRead(t)

\* The advertisements of two stations for one frequency with their owner's
\* signature, and one without a signature
LockFields ==
    [message_id : MessageIds, station_id : StationIds, frequency : {RaceFrequency},
     name : {"n1"}, stream_url : {"u1"}, advertised_at : {0}, ttl_seconds : {MaxTtl},
     owner_public_key : {"K1"}]

LockAdvertisements ==
    { SignedAd(ad) : ad \in LockFields }
    \cup { WithSignature(ad, Garbage) : ad \in { x \in LockFields : x.message_id = "m2" /\ x.station_id = "s2" } }

LockImports ==
    { [station_id |-> "s2", frequency |-> RaceFrequency, name |-> "n1",
       stream_url |-> "u1", created_at |-> 0, last_seen |-> 0,
       expires_at |-> MaxTtl, owner_public_key |-> "K2"] }

InitLock == InitState(MinCap, MaxOps + 1)

NextLock ==
    \/ \E t \in Tasks, ad \in LockAdvertisements : LockAcceptCall(t, ad)
    \/ \E t \in Tasks :
         \E sig \in { sign_bytes("K1", canonicalize_release_bytes("release", RaceKey, uuid_to_string("s1"))),
                      Garbage } :
            LockReleaseCall(t, RaceKey, "s1", sig)
    \/ \E t \in Tasks : LockExpireCall(t)
    \/ \E t \in Tasks, a \in LockImports : LockImportCall(t, a)
    \/ \E t \in Tasks : LockSnapshotCall(t)
    \/ \E t \in Tasks : LockGetCall(t, RaceKey)
    \/ \E t \in Tasks : LockStep(t)
    \/ Tick

\* Every task that can take a step is scheduled again
SpecLock ==
    /\ InitLock /\ [][NextLock]_vars
    /\ \A t \in Tasks : WF_vars(LockStep(t))

----------------------------------------------------------------------------
(* http.rs: get_station_by_frequency, which parses the frequency of the     *)
(* request path and looks its key up                                        *)

DigitChars == {"0", "1", "2", "3", "4", "5", "6", "7", "8", "9"}

DigitVal(c) == CHOOSE d \in 0 .. 9 : Char(d) = c

RECURSIVE ToInt(_)
ToInt(ds) == IF ds = <<>> THEN 0 ELSE 10 * ToInt(Pop(ds)) + DigitVal(ds[Len(ds)])

\* BigDecimal::from_str for plain notation: an optional sign, digits, and an
\* optional point followed by digits; the scale is the number of digits
\* after the point
BigDecimal_from_str(s) ==
    LET signed == Len(s) > 0 /\ s[1] \in {"+", "-"}
        body == IF signed THEN Tail(s) ELSE s
        dot == IF Contains(body, ".")
               THEN CHOOSE i \in 1 .. Len(body) :
                        body[i] = "." /\ \A j \in 1 .. (i - 1) : body[j] # "."
               ELSE 0
        ip == IF dot = 0 THEN body ELSE SubSeq(body, 1, dot - 1)
        fp == IF dot = 0 THEN <<>> ELSE SubSeq(body, dot + 1, Len(body))
        digits == ip \o fp
    IN  IF digits = <<>> \/ \E i \in 1 .. Len(digits) : digits[i] \notin DigitChars
          THEN [ok |-> FALSE]
          ELSE [ok |-> TRUE,
                v |-> [int_val |-> (IF signed /\ s[1] = "-" THEN -1 ELSE 1) * ToInt(digits),
                       scale |-> Len(fp)]]

\* The frequencies clients ask for, as the path carries them
DecimalStrings ==
    { sg \o ip \o fp :
        sg \in {<<>>, <<"+">>, <<"-">>},
        ip \in {<<"0">>, <<"1", "0">>, <<"1", "0", "0">>},
        fp \in {<<>>, <<".", "0">>, <<".", "5">>, <<".", "5", "0">>,
                <<".", "5", "0", "0">>, <<".", "0", "5">>} }
    \cup { <<"x">> }

\* Lines 43-52: 400 for a path that is no decimal, else the lookup of the
\* normalized key: 200 with the assignment or 404
get_station_by_frequency(t) ==
    /\ pc[t] = "idle"
    /\ loc[t] # None
    /\ LET d == BigDecimal_from_str(loc[t].frequency) IN
         IF ~d.ok
           THEN ret' = [ret EXCEPT ![t] = [op |-> "get_station", frequency |-> loc[t].frequency,
                                           status |-> 400, key |-> <<>>, body |-> None]]
           ELSE LET key == normalize_frequency_key(d.v)
                    a == get_assignment_by_key(registry, key)
                IN  ret' = [ret EXCEPT ![t] = [op |-> "get_station", frequency |-> loc[t].frequency,
                                               status |-> IF a = None THEN 404 ELSE 200,
                                               key |-> key, body |-> a]]
    /\ loc' = [loc EXCEPT ![t] = None]
    /\ UNCHANGED <<svc, registry, seen_messages, max_frequencies_per_owner, events, now, pc,
                   calls_left, accepted>>

\* Two requests in flight, each for any of the frequencies
InitLookup ==
    /\ registry = {}
    /\ seen_messages = {}
    /\ max_frequencies_per_owner = MinCap
    /\ events = <<>>
    /\ now = 0
    /\ pc = [t \in Tasks |-> "idle"]
    /\ loc \in [Tasks -> [frequency : DecimalStrings]]
    /\ ret = [t \in Tasks |-> None]
    /\ calls_left = 0
    /\ accepted = {}
    /\ now_playing = None
    /\ now_tx = broadcast_channel(NowCapacity)
    /\ now_sent = <<>>
    /\ now_rx = [c \in Subscribers |-> NoReceiver]
    /\ delivered = [c \in Subscribers |-> <<>>]
    /\ outbound = <<>>
    /\ cancelled = FALSE
    /\ advertise_ttl_secs = MinTtl
    /\ interval = 0
    /\ seen_lock = rwlock_new
    /\ registry_lock = rwlock_new

NextLookup == \E t \in Tasks : get_station_by_frequency(t)

SpecLookup == InitLookup /\ [][NextLookup]_vars

----------------------------------------------------------------------------
(* Properties *)

Idle(t) == pc[t] = "idle"

\* Task t completes the locked section of accept_advertisement in this step
AcceptWriteStep(t) == pc[t] = "accept_write" /\ pc'[t] # "accept_write"

\* Task t returns from an accept_advertisement call in this step
AcceptReturnStep(t) == ret'[t] # ret[t] /\ ret'[t].op = "accept"

\* Task t takes a step of an accept_advertisement call before its insert
AcceptCallStep(t) ==
    \/ pc[t] = "idle" /\ pc'[t] = "accept_write"
    \/ pc[t] = "idle" /\ AcceptReturnStep(t)
    \/ AcceptWriteStep(t)

\* The advertisement of the call that task t takes a step of
CallAd(t) ==
    IF pc[t] = "accept_write" THEN loc[t].ad
    ELSE IF pc'[t] = "accept_write" THEN loc'[t].ad
    ELSE ret'[t].ad

CallSigned(t) ==
    IF pc[t] = "accept_write" THEN Signed(loc[t].ad)
    ELSE IF pc'[t] = "accept_write" THEN Signed(loc'[t].ad)
    ELSE ret'[t].signed

Upserts == SelectSeq(events, LAMBDA e : e.event = "upsert")

OnePerKey == \A e1, e2 \in registry : e1.key = e2.key => e1 = e2

\* The conflict check and the insert are one step: an insert never lands on
\* another station's entry, and a held key always answers FrequencyConflict
CheckAndInsertAtomic ==
    \A t \in Tasks : AcceptWriteStep(t) =>
        LET ad == loc[t].ad
            key == loc[t].key
            existing == reg_get(registry, key)
        IN  /\ (existing # None /\ existing.station_id # ad.station_id) =>
                /\ pc'[t] = "idle"
                /\ ret'[t].kind = "FrequencyConflict"
                /\ ret'[t].val = <<key, existing.station_id>>
                /\ registry' = registry
            /\ pc'[t] = "accept_emit" =>
                /\ existing = None \/ existing.station_id = ad.station_id
                /\ registry' = reg_insert(registry, key, loc'[t].assignment)

\* Two calls, and nothing else, ran on the fresh node: signed advertisements
\* with different message ids for one key by different stations
RaceOutcome ==
    \A t, u \in Tasks :
        ( /\ t # u /\ Idle(t) /\ Idle(u) /\ calls_left = MaxOps - 2
          /\ ret[t].op = "accept" /\ ret[u].op = "accept"
          /\ ret[t].signed /\ ret[u].signed
          /\ ret[t].ad.message_id # ret[u].ad.message_id
          /\ ret[t].ad.station_id # ret[u].ad.station_id
          /\ normalize_frequency_key(ret[t].ad.frequency) = normalize_frequency_key(ret[u].ad.frequency) )
        => \/ /\ ret[t].inserted /\ ret[u].kind = "FrequencyConflict"
              /\ ret[u].val = <<normalize_frequency_key(ret[t].ad.frequency), ret[t].ad.station_id>>
           \/ /\ ret[u].inserted /\ ret[t].kind = "FrequencyConflict"
              /\ ret[t].val = <<normalize_frequency_key(ret[u].ad.frequency), ret[u].ad.station_id>>

C2_OwnerCap ==
    \A k \in OwnerKeys : OwnerCount(registry, k) <= max_frequencies_per_owner

\* C2 witness: an owner holds exactly the cap, here two entries, and a
\* further call of that owner for an empty key has passed the signature
\* check and is about to take the write guard
C2_Witness ==
    \E k \in OwnerKeys :
        /\ OwnerCount(registry, k) = max_frequencies_per_owner
        /\ max_frequencies_per_owner = MaxCap
        /\ \E t \in Tasks : pc[t] = "accept_write" /\ loc[t].ad.owner_public_key = k
                            /\ ~reg_contains_key(registry, loc[t].key)

\* C3: whatever operations have run, import_assignment included, no owner
\* of a registry entry holds more than max_frequencies_per_owner entries.
C3_OwnerCapWithImport ==
    \A e \in registry :
        OwnerCount(registry, e.val.owner_public_key) <= max_frequencies_per_owner

\* C4: every assignment that enters the registry is built from an
\* advertisement whose signature verified over its canonical bytes under
\* the assignment's owner key.
C4_EveryEntryVerified ==
    [][\A e \in registry' \ registry :
          \E t \in Tasks :
              /\ pc[t] = "accept_write"
              /\ VerifyAdvertisement(loc[t].ad, loc[t].key)
              /\ e = [key |-> loc[t].key, val |-> NewAssignment(loc[t].ad, now)]]_vars

\* C5: an accept_advertisement call with an advertisement whose signature
\* does not verify returns InvalidSignature and leaves the registry
\* unchanged, in every state of the registry and of seen_messages.
C5_TamperedRejected ==
    [][\A t \in Tasks :
          (AcceptReturnStep(t) /\ ~ret'[t].signed) =>
              (ret'[t].kind = "InvalidSignature" /\ registry' = registry)]_vars

\* C6: once an advertisement with message id M has been accepted, no later
\* accept_advertisement call carrying M changes the registry or emits an
\* event: such a call never reaches the point between insert and upsert.
C6_SeenNeverChangesState ==
    \A t \in Tasks : pc[t] = "accept_emit" => ~loc[t].replay

\* C7: two accept_advertisement calls with the same advertisement, also
\* when they run concurrently, leave one entry under the key, and exactly
\* one upsert event has been emitted.
C7_ReplayIdempotent ==
    \A t, u \in Tasks :
        ( /\ t # u /\ Idle(t) /\ Idle(u) /\ calls_left = MaxOps - 2
          /\ ret[t].op = "accept" /\ ret[u].op = "accept"
          /\ ret[t].signed /\ ret[u].signed
          /\ ret[t].ad = ret[u].ad )
        => /\ Cardinality(registry) = 1
           /\ reg_contains_key(registry, normalize_frequency_key(ret[t].ad.frequency))
           /\ Len(Upserts) = 1

\* C8: whenever the registry holds an entry at the advertisement's key with
\* another station_id, accept_advertisement of a validly signed
\* advertisement returns FrequencyConflict(key, existing.station_id) and
\* changes neither the registry nor the event stream.
C8_ConflictNoStateChange ==
    [][\A t \in Tasks :
          LET key == normalize_frequency_key(CallAd(t).frequency)
              existing == reg_get(registry, key)
          IN  ( /\ AcceptCallStep(t) /\ CallSigned(t)
                /\ existing # None /\ existing.station_id # CallAd(t).station_id )
              => /\ registry' = registry
                 /\ events' = events
                 /\ pc'[t] = "idle" =>
                      /\ ret'[t].kind = "FrequencyConflict"
                      /\ ret'[t].val = <<key, existing.station_id>>]_vars

\* C9: whenever the registry holds an entry at the advertisement's key with
\* the same station_id and another owner_public_key, accept_advertisement
\* of a validly signed advertisement returns OwnerMismatch and changes
\* neither the registry nor the event stream.
C9_OwnerMismatchNoStateChange ==
    [][\A t \in Tasks :
          LET key == normalize_frequency_key(CallAd(t).frequency)
              existing == reg_get(registry, key)
          IN  ( /\ AcceptCallStep(t) /\ CallSigned(t)
                /\ existing # None /\ existing.station_id = CallAd(t).station_id
                /\ existing.owner_public_key # CallAd(t).owner_public_key )
              => /\ registry' = registry
                 /\ events' = events
                 /\ pc'[t] = "idle" => ret'[t].kind = "OwnerMismatch"]_vars

\* C10: when the slot at the advertisement's key is empty and the owner
\* already holds max_frequencies_per_owner or more entries, the call returns
\* OwnerCapExceeded and inserts nothing; with a cap of two the third of
\* three signed advertisements of one owner for three empty frequencies is
\* refused.
C10_OwnerCapExceeded ==
    [][\A t \in Tasks :
          ( /\ AcceptWriteStep(t)
            /\ ~reg_contains_key(registry, loc[t].key)
            /\ OwnerCount(registry, loc[t].ad.owner_public_key) >= max_frequencies_per_owner )
          => /\ pc'[t] = "idle"
             /\ ret'[t].kind = "OwnerCapExceeded"
             /\ registry' = registry
             /\ events' = events]_vars

\* C10 witness: with a cap of two, an owner holding two frequencies was
\* refused a third, empty one
C10_Witness ==
    \E t \in Tasks :
        /\ Idle(t) /\ ret[t].op = "accept" /\ ret[t].kind = "OwnerCapExceeded"
        /\ max_frequencies_per_owner = MaxCap
        /\ OwnerCount(registry, ret[t].ad.owner_public_key) = MaxCap
        /\ Cardinality(registry) = MaxCap
        /\ ~reg_contains_key(registry, normalize_frequency_key(ret[t].ad.frequency))

\* Task t sends the upsert event and returns from accept_advertisement
AcceptEmitStep(t) == pc[t] = "accept_emit" /\ pc'[t] = "idle"

\* C11: when accept_advertisement succeeds by inserting or refreshing, the
\* entry stored under normalize(ad.frequency) has the station_id, name,
\* stream_url and owner_public_key of the advertisement, last_seen =
\* ad.advertised_at and expires_at = ad.advertised_at + ad.ttl_seconds, and
\* the call then emits one upsert event carrying that assignment and
\* returns it.
C11_AcceptStoresAdvertisement ==
    [][\A t \in Tasks :
          /\ (AcceptWriteStep(t) /\ pc'[t] = "accept_emit") =>
                LET ad == loc[t].ad
                    a == reg_get(registry', normalize_frequency_key(ad.frequency))
                IN  /\ a # None
                    /\ a.station_id = ad.station_id
                    /\ a.frequency = ad.frequency
                    /\ a.name = ad.name
                    /\ a.stream_url = ad.stream_url
                    /\ a.owner_public_key = ad.owner_public_key
                    /\ a.last_seen = ad.advertised_at
                    /\ a.expires_at = ad.advertised_at + ad.ttl_seconds
                    /\ loc'[t].assignment = a
                    /\ events' = events
          /\ AcceptEmitStep(t) =>
                /\ events' = Append(events, [event |-> "upsert", assignment |-> loc[t].assignment])
                /\ ret'[t].kind = "Ok"
                /\ ret'[t].val = loc[t].assignment
                /\ registry' = registry]_vars

\* C11 witness: an advertisement stamped before the time of receipt was
\* inserted; the entry is in the registry and its upsert is the only event
C11_Witness ==
    \E t \in Tasks :
        /\ Idle(t) /\ ret[t].op = "accept" /\ ret[t].kind = "Ok" /\ ret[t].inserted
        /\ ret[t].val.created_at > ret[t].ad.advertised_at
        /\ reg_get(registry, normalize_frequency_key(ret[t].ad.frequency)) = ret[t].val
        /\ events = <<[event |-> "upsert", assignment |-> ret[t].val]>>

\* The task that makes the next call: the second task takes a call only
\* while the first is busy
Caller == IF pc["t1"] = "idle" THEN "t1" ELSE "t2"

\* Task t enters release_assignment in this step
ReleaseCallStep(t) ==
    /\ calls_left' < calls_left /\ t = Caller
    /\ \/ pc'[t] = "release_write"
       \/ pc'[t] = "idle" /\ ret'[t].op = "release"

\* The arguments of the release_assignment call that task t enters
ReleaseArgs(t) == IF pc'[t] = "release_write" THEN loc'[t] ELSE ret'[t]

ReleaseWriteStep(t) == pc[t] = "release_write" /\ pc'[t] # "release_write"

ReleaseEmitStep(t) == pc[t] = "release_emit" /\ pc'[t] = "idle"

\* The key holds an entry of that station and the signature is its owner's
\* over the canonical release bytes
ValidRelease(reg, key, station_id, signature_b64) ==
    LET a == reg_get(reg, key) IN
    /\ a # None
    /\ a.station_id = station_id
    /\ signature_b64 = [signer |-> a.owner_public_key,
                        data |-> <<"shortwave:", "release", ":freq=", key,
                                   ";station=", <<"uuid", station_id>> >>]

\* C12: release_assignment(key, station_id, sig) on an entry that exists
\* with that station_id, with sig valid over the canonical release bytes
\* under the entry's owner key, passes the verification, removes exactly
\* that entry and leaves every other entry unchanged, emits exactly one
\* delete event carrying the removed assignment and returns true; a
\* signature of another key stops the call before the removal.
C12_ReleaseRemovesEntry ==
    [][\A t \in Tasks :
          /\ ReleaseCallStep(t) =>
                LET r == ReleaseArgs(t) IN
                /\ (pc'[t] = "release_write")
                      <=> ValidRelease(registry, r.key, r.station_id, r.signature_b64)
                /\ pc'[t] = "idle" => ret'[t].kind = FALSE
                /\ registry' = registry /\ events' = events
          /\ ReleaseWriteStep(t) =>
                LET a == reg_get(registry, loc[t].key) IN
                (a # None /\ a.station_id = loc[t].station_id) =>
                    /\ registry' = registry \ {[key |-> loc[t].key, val |-> a]}
                    /\ pc'[t] = "release_emit"
                    /\ loc'[t].removed = a
                    /\ events' = events
          /\ ReleaseEmitStep(t) =>
                /\ events' = Append(events, [event |-> "delete", assignment |-> loc[t].removed])
                /\ ret'[t].kind = TRUE
                /\ registry' = registry]_vars

\* C12 witness: of two entries one was released by its owner; the other is
\* still there, and the one delete event carries the removed assignment
C12_Witness ==
    \E t \in Tasks :
        /\ Idle(t) /\ ret[t].op = "release" /\ ret[t].kind = TRUE
        /\ Cardinality(registry) = 1
        /\ ~reg_contains_key(registry, ret[t].key)
        /\ Len(events) = 3
        /\ events[3].event = "delete"
        /\ events[3].assignment.station_id = ret[t].station_id
        /\ normalize_frequency_key(events[3].assignment.frequency) = ret[t].key
        /\ ret[t].signature_b64.signer = events[3].assignment.owner_public_key

\* C13: release_assignment removes an entry only if the presented signature
\* verifies under the owner_public_key of the entry that is in the registry
\* at the moment of removal, whatever accept, import, expire or release
\* calls interleave with it.
C13_ReleaseVerifiedAtRemoval ==
    [][\A t \in Tasks :
          (ReleaseWriteStep(t) /\ registry' # registry) =>
              ValidRelease(registry, loc[t].key, loc[t].station_id, loc[t].signature_b64)]_vars

\* C14: release_assignment returns false, removes nothing and emits no
\* event when the key has no entry or the entry's station_id differs from
\* the request's, at the first look and at the second look under the write
\* guard alike; so a release repeated after it succeeded finds no entry and
\* returns false.
C14_ReleaseFailsSilently ==
    [][\A t \in Tasks :
          /\ ReleaseCallStep(t) =>
                LET r == ReleaseArgs(t)
                    a == reg_get(registry, r.key)
                IN  (a = None \/ a.station_id # r.station_id) =>
                        /\ pc'[t] = "idle"
                        /\ ret'[t].kind = FALSE
                        /\ registry' = registry /\ events' = events
          /\ ReleaseWriteStep(t) =>
                LET a == reg_get(registry, loc[t].key) IN
                (a = None \/ a.station_id # loc[t].station_id) =>
                    /\ pc'[t] = "idle"
                    /\ ret'[t].kind = FALSE
                    /\ registry' = registry /\ events' = events]_vars

\* C14 witness: the release that had succeeded was repeated with the same
\* signature; it returned false, the key is empty and the only delete
\* event is the first release's
C14_Witness ==
    \E t \in Tasks :
        /\ Idle(t) /\ ret[t].op = "release" /\ ret[t].kind = FALSE
        /\ calls_left = 0
        /\ registry = {}
        /\ Len(events) = 2
        /\ events[1].event = "upsert" /\ events[2].event = "delete"
        /\ ret[t].station_id = events[2].assignment.station_id
        /\ ret[t].signature_b64 = sign_bytes(events[2].assignment.owner_public_key,
                                      canonicalize_release_bytes("release", ret[t].key,
                                                                 uuid_to_string(ret[t].station_id)))

\* Task t enters expire_assignments as one of the counted calls
ExpireCallStep(t) ==
    /\ calls_left' < calls_left /\ t = Caller
    /\ \/ pc'[t] = "expire_write"
       \/ pc'[t] = "idle" /\ ret'[t].op = "expire"

ExpireWriteStep(t) == pc[t] = "expire_write" /\ pc'[t] = "idle"

Range(q) == { q[i] : i \in 1 .. Len(q) }

\* The entries that are due at time t_now, and their keys
Due(reg, t_now) == { e \in reg : ~(e.val.expires_at > t_now) }

DueKeys(reg, t_now) == { e.key : e \in Due(reg, t_now) }

\* The events sent in this step
Sent == SubSeq(events', Len(events) + 1, Len(events'))

\* C15: a call of expire_assignments that no operation interferes with
\* lists every entry whose expires_at <= now and no other, removes exactly
\* the listed entries, and emits exactly one delete event per removed entry,
\* carrying it; when nothing is due it returns without a change.
C15_ExpireRemovesDue ==
    [][\A t \in Tasks :
          /\ ExpireCallStep(t) =>
                /\ registry' = registry /\ events' = events
                /\ IF pc'[t] = "idle"
                     THEN DueKeys(registry, now) = {}
                     ELSE /\ Range(loc'[t].to_remove) = DueKeys(registry, now)
                          /\ Len(loc'[t].to_remove) = Cardinality(DueKeys(registry, now))
                          /\ loc'[t].now = now
          /\ (ExpireWriteStep(t) /\ Range(loc[t].to_remove) = DueKeys(registry, loc[t].now)) =>
                /\ registry' = registry \ Due(registry, loc[t].now)
                /\ Len(events') = Len(events) + Cardinality(Due(registry, loc[t].now))
                /\ SubSeq(events', 1, Len(events)) = events
                /\ \A e \in Due(registry, loc[t].now) :
                      \E i \in 1 .. Len(Sent) :
                          Sent[i] = [event |-> "delete", assignment |-> e.val]]_vars

\* C15 witness: of two entries the one that was due was removed by a sweep
\* called on demand, with its delete event; the one not yet due is kept
C15_Witness ==
    /\ Idle("t1") /\ Idle("t2") /\ ret["t1"].op = "expire" /\ ret["t2"].op = "none"
    /\ calls_left = 0
    /\ Cardinality(registry) = 1
    /\ \A e \in registry : e.val.expires_at > now
    /\ Len(events) = 3
    /\ events[3].event = "delete"
    /\ events[3].assignment.expires_at <= now
    /\ \A e \in registry : e.key # normalize_frequency_key(events[3].assignment.frequency)

\* C16: expire_assignments never removes an entry whose expires_at is
\* greater than now at the moment of removal, so an advertisement that
\* refreshes a key with a newer expires_at while a sweep is under way stays
\* in the registry after both complete, under every interleaving.
C16_RefreshSurvivesSweep ==
    [][\A t \in Tasks :
          ExpireWriteStep(t) =>
              \A e \in registry \ registry' : e.val.expires_at <= now]_vars

\* C17: in every reachable state, between sweeps too, every entry returned
\* by snapshot_registry is in the registry and has expires_at > now, and
\* every registry entry with expires_at > now is returned.
C17_SnapshotFiltersExpired ==
    LET snap == snapshot_registry(registry, now) IN
    /\ \A a \in snap : a.expires_at > now /\ \E e \in registry : e.val = a
    /\ \A e \in registry : e.val.expires_at > now => e.val \in snap

\* C17 witness: before the sweeper has run, the registry holds an entry that
\* expires at this very moment and one that is not yet due; the snapshot
\* is the second alone
C17_Witness ==
    /\ ret["t2"].op = "none" /\ Idle("t1") /\ Idle("t2")
    /\ \E e1, e2 \in registry :
          /\ e1.val.expires_at = now
          /\ e2.val.expires_at > now
          /\ registry = {e1, e2}
          /\ snapshot_registry(registry, now) = {e2.val}

\* The key holds an entry that is due
DueAt(k) == \E e \in registry : e.key = k /\ e.val.expires_at <= now

\* Every entry whose key is empty after this step is announced by a delete
\* event sent in this step
RemovalAnnounced ==
    \A e \in registry :
        ~reg_contains_key(registry', e.key) =>
            \E i \in 1 .. Len(Sent) : Sent[i] = [event |-> "delete", assignment |-> e.val]

\* C18: with the sweeper's task scheduled fairly, every assignment whose
\* expires_at <= now and that is not refreshed is eventually removed from
\* the registry, and its removal is announced by a delete event.
C18_DueEventuallyRemoved ==
    /\ \A k \in Keys : DueAt(k) ~> ~DueAt(k)
    /\ [][RemovalAnnounced]_vars

\* C18 witness: the only call made was an accept; its entry became due and
\* the sweeper removed it and sent the delete event
C18_Witness ==
    /\ calls_left = MaxOps /\ Idle("t1") /\ ret["t1"].op = "accept" /\ ret["t1"].inserted
    /\ Idle("t2") /\ ret["t2"].op = "expire"
    /\ registry = {}
    /\ events = <<[event |-> "upsert", assignment |-> ret["t1"].val],
                  [event |-> "delete", assignment |-> ret["t1"].val]>>

\* Task t runs import_assignment in this step
ImportStep(t) ==
    /\ calls_left' < calls_left /\ t = Caller
    /\ pc'[t] = "idle" /\ ret'[t].op = "import"

\* C19: import_assignment(a) stores a under normalize(a.frequency) whatever
\* the key held before, station and owner included, emits one upsert event
\* carrying a, and changes no other key.
C19_ImportAdopts ==
    [][\A t \in Tasks :
          ImportStep(t) =>
              LET a == ret'[t].assignment
                  key == normalize_frequency_key(a.frequency)
              IN  /\ registry' = { e \in registry : e.key # key } \cup {[key |-> key, val |-> a]}
                  /\ events' = Append(events, [event |-> "upsert", assignment |-> a])]_vars

\* C19 witness: an imported row replaced the row of another station and
\* another owner at its key
C19_Witness ==
    \E t \in Tasks :
        /\ Idle(t) /\ ret[t].op = "import"
        /\ Len(events) = 2
        /\ events[2].assignment = ret[t].assignment
        /\ events[1].assignment.frequency = events[2].assignment.frequency
        /\ events[1].assignment.station_id # events[2].assignment.station_id
        /\ events[1].assignment.owner_public_key # events[2].assignment.owner_public_key
        /\ registry = {[key |-> normalize_frequency_key(ret[t].assignment.frequency),
                        val |-> ret[t].assignment]}

\* The events sent about key k, in the order of the channel
KeyEvents(k) ==
    SelectSeq(events, LAMBDA e : normalize_frequency_key(e.assignment.frequency) = k)

\* C20: events are sent in the order in which the map was mutated, so that
\* once every call has returned, the last event sent about a key tells what
\* the registry holds there: after an upsert the announced row, after a
\* delete nothing.
C20_EventsFollowMap ==
    (\A t \in Tasks : Idle(t)) =>
        \A k \in Keys :
            LET q == KeyEvents(k)
                row == reg_get(registry, k)
            IN  IF q = <<>> THEN row = None
                ELSE IF q[Len(q)].event = "upsert" THEN row = q[Len(q)].assignment
                ELSE row = None

----------------------------------------------------------------------------
(* The broadcast channels *)

\* The channel still holds the item sent at position p
Held(p) == now_tx.buffer[p % RingLen(now_tx)].pos = p

\* The items the channel delivered to subscriber c, without the initial event
ChannelItems(c) == SelectSeq(delivered[c], LAMBDA x : x.pos >= 0)

\* Subscriber c's stream is polled: its receiver's cursor moves
PollStep(c) ==
    /\ now_rx[c].state = "streaming" /\ now_rx'[c].state = "streaming"
    /\ now_rx'[c].next # now_rx[c].next

\* C21: a subscriber receives the items it does receive in the order they
\* were sent, none twice: every poll of its stream either yields the item at
\* its cursor, which is later than every item it was given before, or skips a
\* run of the oldest items it had not read, every one of them overwritten,
\* and stops at the oldest item the channel still holds.
C21_OrderedModuloDrops ==
    [][\A c \in Subscribers :
         PollStep(c) =>
           LET n == now_rx[c].next
               n2 == now_rx'[c].next
           IN  \/ /\ n2 = n + 1
                  /\ Held(n)
                  /\ delivered'[c] = Append(delivered[c],
                                            [pos |-> n, val |-> now_tx.buffer[n % RingLen(now_tx)].val])
                  /\ \A i \in 1 .. Len(delivered[c]) : delivered[c][i].pos < n
               \/ /\ n2 > n
                  /\ delivered'[c] = delivered[c]
                  /\ \A p \in n .. (n2 - 1) : ~Held(p)
                  /\ Held(n2)
      ]_vars

\* C21 witness: a subscriber that was given item 0, fell behind and was then
\* given item 2, the oldest one left, item 1 having been overwritten
C21_Witness ==
    \E c \in Subscribers :
        /\ now_rx[c].state = "streaming"
        /\ Len(ChannelItems(c)) = 2
        /\ ChannelItems(c)[1].pos = 0
        /\ ChannelItems(c)[2].pos = 2
        /\ now_tx.pos = 4

\* C22: a send never waits, whatever the subscribers do; a subscriber that
\* fell more than the ring behind loses the oldest items it had not read, is
\* told so by its receiver (Lagged, with the number of items missed), and
\* goes on from the oldest item still held; a subscriber that has unread
\* items can always read on, and the newest item is always held.
C22_LagDetectedProducerFree ==
    /\ [](\A t \in Tasks : pc[t] = "now_send" => ENABLED SetNowSend(t))
    /\ [](\A c \in Subscribers :
            (now_rx[c].state = "streaming" /\ now_rx[c].next < now_tx.pos)
               => /\ ENABLED NowPoll(c)
                  /\ Held(now_tx.pos - 1))
    /\ [][\A c \in Subscribers :
            (PollStep(c) /\ ~Held(now_rx[c].next)) =>
               LET r == broadcast_recv(now_tx, now_rx[c].next) IN
               /\ r.kind = "Lagged"
               /\ r.missed = now_rx'[c].next - now_rx[c].next
               /\ r.missed > 0
               /\ \A p \in now_rx[c].next .. (now_rx'[c].next - 1) : ~Held(p)
               /\ Held(now_rx'[c].next)
               /\ now_rx'[c].next < now_tx.pos
         ]_vars

\* C22 witness: one subscriber has read nothing while three items were sent
\* on the ring of two, and has just been moved to item 1; the other has read
\* all three
C22_Witness ==
    /\ now_tx.pos = 3
    /\ now_rx["c1"].state = "streaming" /\ now_rx["c1"].next = 1
    /\ ChannelItems("c1") = <<>>
    /\ now_rx["c2"].state = "streaming" /\ now_rx["c2"].next = 3
    /\ Len(ChannelItems("c2")) = 3

\* C23: once every set_now_playing call has returned, the cell holds the
\* value that was published last on the now-playing channel.
C23_CellIsLastPublished ==
    ((\A t \in Tasks : Idle(t)) /\ now_sent # <<>>)
        => get_now_playing = now_sent[Len(now_sent)]

----------------------------------------------------------------------------
(* The advertisement task and the gossip queue *)

\* The advertisement task has the result of its accept_advertisement call in
\* hand and is at the match of main.rs line 124
AtMatch == pc["publisher"] = "idle" /\ ret["publisher"] # None

\* C24: the advertisement task is never held up by the outbound queue: with
\* the result of accept_advertisement in hand it can always go on, and when
\* the queue is full the message is dropped.
C24_PublishNeverWaits == AtMatch => ENABLED PublisherMatch

\* The advertisement task goes through its match in this step
MatchStep == AtMatch /\ ret'["publisher"] = None

LocalKey == normalize_frequency_key(LocalStation.frequency)

\* The registry holds what makes accept_advertisement refuse the local
\* advertisement: the local key under another station or another owner, or,
\* with the local key free, as many keys of the local owner as the cap allows
Holder(reg) ==
    LET existing == reg_get(reg, LocalKey) IN
    \/ existing # None /\ existing.station_id # LocalStation.station_id
    \/ existing # None /\ existing.owner_public_key # owner_public_key_b64
    \/ existing = None /\ OwnerCount(reg, owner_public_key_b64) >= max_frequencies_per_owner

\* C25: whatever enters the outbound queue is the advertisement of the turn,
\* put there after accept_advertisement returned Ok for it, having stored
\* it; when the call returned FrequencyConflict, OwnerMismatch or
\* OwnerCapExceeded nothing enters the queue and the task is back at its
\* loop boundary; and the call of a turn is refused only while the registry
\* holds a conflicting holder: with the holder gone the turn succeeds.
C25_GossipOnlyAfterLocalAccept ==
    [][/\ outbound' # outbound /\ Len(outbound') > Len(outbound) =>
            /\ MatchStep
            /\ ret["publisher"].kind = "Ok" /\ ret["publisher"].inserted
            /\ outbound' = Append(outbound, outbound'[Len(outbound')])
            /\ outbound'[Len(outbound')].type = "Advertise"
            /\ Fields(outbound'[Len(outbound')].ad) = ret["publisher"].ad
       /\ (MatchStep /\ ret["publisher"].kind # "Ok") =>
            /\ outbound' = outbound
            /\ pc'["publisher"] = "idle"
       /\ AcceptWriteStep("publisher") =>
            IF Holder(registry)
              THEN /\ registry' = registry
                   /\ ret'["publisher"].kind \in {"FrequencyConflict", "OwnerMismatch", "OwnerCapExceeded"}
              ELSE /\ pc'["publisher"] = "accept_emit"
                   /\ reg_get(registry', LocalKey) = NewAssignment(loc["publisher"].ad, now)
      ]_vars

\* C25 witness: the first turn was refused, the holder went away, and the
\* second turn's advertisement, stored in the registry, is in the queue
C25_Witness ==
    /\ "p1" \in seen_messages \ accepted
    /\ "p2" \in accepted
    /\ Len(outbound) = 1
    /\ outbound[1].ad.message_id = "p2"
    /\ reg_get(registry, LocalKey) # None
    /\ reg_get(registry, LocalKey).station_id = LocalStation.station_id

----------------------------------------------------------------------------
(* The frequency key *)

\* Task t's lookup has returned with a key
Looked(t) == ret[t] # None /\ ret[t].op = "get_station" /\ ret[t].status # 400

\* Two decimals stand for the same value
SameValue(d1, d2) == d1.int_val * 10 ^ d2.scale = d2.int_val * 10 ^ d1.scale

\* C27: every decimal has a key, two decimals have the same key if and only
\* if they are the same value, "100.50", "100.5", "100.500" and "+100.5" have
\* the key "100.5", and a key has no leading '+', no trailing zero after a
\* point, no trailing point, and is never "-0".
C27_KeyIffSameValue ==
    /\ \A t \in Tasks :
         (ret[t] # None /\ ret[t].op = "get_station" /\ BigDecimal_from_str(ret[t].frequency).ok)
            => /\ Looked(t)
               /\ Len(ret[t].key) > 0
               /\ ret[t].key[1] # "+"
               /\ Contains(ret[t].key, ".") => ret[t].key[Len(ret[t].key)] \notin {"0", "."}
               /\ ret[t].key # <<"-", "0">>
               /\ ret[t].frequency \in {<<"1", "0", "0", ".", "5", "0">>, <<"1", "0", "0", ".", "5">>,
                                        <<"1", "0", "0", ".", "5", "0", "0">>,
                                        <<"+", "1", "0", "0", ".", "5">>}
                    => ret[t].key = <<"1", "0", "0", ".", "5">>
               /\ ret[t].frequency \in {<<"-", "0">>, <<"-", "0", ".", "0">>} => ret[t].key = <<"0">>
    /\ \A t, u \in Tasks :
         (Looked(t) /\ Looked(u))
            => ((ret[t].key = ret[u].key)
                  <=> SameValue(BigDecimal_from_str(ret[t].frequency).v,
                                BigDecimal_from_str(ret[u].frequency).v))

\* C27 witness: "100.50" and "+100.5" were looked up under the same key,
\* "100.5"
C27_Witness ==
    /\ Looked("t1") /\ ret["t1"].frequency = <<"1", "0", "0", ".", "5", "0">>
    /\ Looked("t2") /\ ret["t2"].frequency = <<"+", "1", "0", "0", ".", "5">>
    /\ ret["t1"].key = ret["t2"].key
    /\ ret["t1"].key = <<"1", "0", "0", ".", "5">>

----------------------------------------------------------------------------
(* Cancellation *)

\* The advertisement task leaves its loop boundary for a new turn
PublisherTurn ==
    /\ pc["publisher"] = "idle" /\ ret["publisher"] = None
    /\ pc'["publisher"] # "idle" \/ ret'["publisher"] # None

\* The expiry task leaves its loop boundary for a new sweep
SweeperTurn == pc["t2"] = "idle" /\ (pc'["t2"] # "idle" \/ ret'["t2"] # ret["t2"])

\* The gossip worker leaves its select for a command or a gossip message
WorkerTurn ==
    /\ pc["t1"] = "idle"
    /\ \/ outbound # <<>> /\ outbound' = Tail(outbound)
       \/ pc'["t1"] # "idle"
       \/ ret'["t1"] # ret["t1"]

\* C28: every periodic worker observes the cancellation signal at its loop
\* boundary: once the node has been asked to stop, a worker that stands at
\* its loop boundary begins no further turn.
C28_WorkersStopOnCancel ==
    [][cancelled => ~(PublisherTurn \/ SweeperTurn \/ WorkerTurn)]_vars

----------------------------------------------------------------------------
(* seen_messages and the owner cap over time *)

\* The message ids of the accept_advertisement calls that have not returned
InFlight == { loc[t].ad.message_id : t \in { u \in Tasks : pc[u] \in {"accept_write", "accept_emit"} } }

\* C29: a message id enters seen_messages only with a successful
\* acceptance: every id in the set is that of a call that stored its
\* advertisement and returned Ok, or of a call that has not returned yet; a
\* call that was refused leaves no id behind.
C29_SeenOnlyOnSuccess == seen_messages \subseteq (accepted \cup InFlight)

\* The keys an owner holds that have not expired
LiveCount(reg, owner, t_now) ==
    Cardinality({ e \in reg : e.val.owner_public_key = owner /\ e.val.expires_at > t_now })

\* C30: an expired assignment no longer counts against its owner's cap,
\* swept or not: a verified advertisement for a key nobody holds, from an
\* owner with fewer unexpired keys than the cap, is accepted.
C30_ExpiredFreesCap ==
    [][\A t \in Tasks :
         ( /\ AcceptWriteStep(t)
           /\ ~reg_contains_key(registry, loc[t].key)
           /\ LiveCount(registry, loc[t].ad.owner_public_key, now) < max_frequencies_per_owner )
            => /\ pc'[t] = "accept_emit"
               /\ reg_contains_key(registry', loc[t].key)
      ]_vars

----------------------------------------------------------------------------
(* Conflicts against expired holders *)

\* The entry task t's accept_advertisement call finds at its key
Existing(t) == reg_get(registry, loc[t].key)

\* Assignment a was stored by an accept_advertisement call, one that is
\* about to send its event or the last one of its task
StoredByAccept(a) ==
    \E u \in Tasks :
        \/ pc[u] = "accept_emit" /\ loc[u].assignment = a
        \/ pc[u] = "idle" /\ ret[u].op = "accept" /\ ret[u].kind = "Ok" /\ ret[u].val = a

\* C31: accept_advertisement returns FrequencyConflict only against a holder
\* that is still live: when the entry at the key, stored by an earlier
\* acceptance, has expires_at <= now, a verified advertisement of a
\* different station for that key is not refused with FrequencyConflict.
C31_ConflictOnlyAgainstLive ==
    [][\A t \in Tasks :
         ( /\ AcceptWriteStep(t)
           /\ Existing(t) # None
           /\ StoredByAccept(Existing(t))
           /\ Existing(t).station_id # loc[t].ad.station_id
           /\ Existing(t).expires_at <= now )
            => ~(pc'[t] = "idle" /\ ret'[t].kind = "FrequencyConflict")
      ]_vars

----------------------------------------------------------------------------
(* Advertisements arriving out of order *)

\* C32: for a key held by the same station and owner, the expires_at and
\* the last_seen of the stored assignment never decrease across successful
\* accept_advertisement calls: an advertisement stamped earlier than the
\* stored last_seen does not roll the assignment back.
C32_RefreshNeverRollsBack ==
    [][\A t \in Tasks :
         ( /\ AcceptWriteStep(t)
           /\ pc'[t] = "accept_emit"
           /\ Existing(t) # None
           /\ Existing(t).station_id = loc[t].ad.station_id
           /\ Existing(t).owner_public_key = loc[t].ad.owner_public_key )
            => /\ reg_get(registry', loc[t].key).expires_at >= Existing(t).expires_at
               /\ reg_get(registry', loc[t].key).last_seen >= Existing(t).last_seen
      ]_vars

----------------------------------------------------------------------------
(* Delete events and departures *)

\* The assignments that leave the registry in this step: their key is
\* empty afterwards or holds another station
Departed ==
    { e.val : e \in { x \in registry :
                        LET after == reg_get(registry', x.key) IN
                        after = None \/ after.station_id # x.val.station_id } }

\* The assignments of the delete events sent in this step
DeletesSent == SelectSeq(Sent, LAMBDA e : e.event = "delete")

\* The assignments a release_assignment call removes in this step and
\* announces once it has dropped the guard
DeletesPending ==
    { loc'[t].removed : t \in { u \in Tasks : pc[u] = "release_write" /\ pc'[u] = "release_emit" } }

\* C33: every time an assignment leaves the registry (removed by
\* release_assignment or expire_assignments, or displaced by an
\* import_assignment that stores another station at its key), exactly one
\* delete event carrying it is emitted, and no delete event is emitted for
\* an assignment that was not removed: the delete events of a step, with
\* the one a release is about to send, are those of the assignments that
\* leave in that step, and the release then sends exactly its own.
C33_OneDeletePerDeparture ==
    [][IF \E t \in Tasks : ReleaseEmitStep(t)
         THEN \E t \in Tasks :
                /\ ReleaseEmitStep(t)
                /\ Sent = <<[event |-> "delete", assignment |-> loc[t].removed]>>
                /\ Departed = {}
         ELSE /\ { e.assignment : e \in Range(DeletesSent) } \cup DeletesPending = Departed
              /\ Len(DeletesSent) + Cardinality(DeletesPending) = Cardinality(Departed)
      ]_vars

----------------------------------------------------------------------------
(* The heartbeat against the TTL *)

\* C34: for every configured advertise TTL >= 10 and without conflicts,
\* the local station's assignment stays live between heartbeats: at every
\* instant after the first successful advertisement the registry holds it
\* with expires_at > now, so that snapshot_registry shows it.
C34_LocalStationStaysLive ==
    accepted # {} =>
        \E a \in snapshot_registry(registry, now) :
            /\ a.station_id = LocalStation.station_id
            /\ normalize_frequency_key(a.frequency) = LocalKey

----------------------------------------------------------------------------
(* The locks of the registry operations *)

HoldsALock(t) == rwlock_holds(seen_lock, t) \/ rwlock_holds(registry_lock, t)

\* The seen_messages lock is asked for first: a task that waits for it
\* neither holds nor waits for the registry lock
LockOrder ==
    \A t \in Tasks :
        rwlock_waits(seen_lock, t) =>
            ~rwlock_holds(registry_lock, t) /\ ~rwlock_waits(registry_lock, t)

\* A task that holds a lock waits for nothing but a lock: its next step,
\* an event send included, can be taken at once
HolderNeverBlocks ==
    \A t \in Tasks : (HoldsALock(t) /\ pc[t] # "await") => ENABLED LockStep(t)

\* While a call is under way some task can take a step
SomeTaskRuns == (\E t \in Tasks : pc[t] # "idle") => \E t \in Tasks : ENABLED LockStep(t)

\* C35: no interleaving of accept_advertisement, release_assignment,
\* expire_assignments, import_assignment, snapshot_registry and
\* get_assignment_by_key calls deadlocks: the seen_messages lock is always
\* taken before the registry lock, no lock is held across a send that
\* waits, and under fair scheduling every call returns.
C35_NoDeadlock ==
    /\ [](LockOrder /\ HolderNeverBlocks /\ SomeTaskRuns)
    /\ \A t \in Tasks : (pc[t] # "idle") ~> (pc[t] = "idle")

\* C35 witness: an accept_advertisement call that found its message id in
\* seen_messages holds the seen_messages write guard and waits for the
\* registry read guard while the other task holds the registry write guard
C35_Witness ==
    \E t, u \in Tasks :
        /\ t # u
        /\ pc[t] = "await" /\ loc[t].then = "accept_replay"
        /\ seen_lock.writer = t
        /\ rwlock_waits(registry_lock, t)
        /\ registry_lock.writer = u

====
